---- MODULE Spec2Model ----
(***************************************************************************)
(* Model of QV::QubitVector<complex_t*>                                   *)
(* (src/simulators/statevector/qubitvector.hpp).                           *)
(*                                                                         *)
(* Amplitudes are complex numbers <<re, im>> with integer parts: on small  *)
(* integers the double arithmetic of the source is exact, so the kernels   *)
(* are modelled with exact integer arithmetic.  Vectors (cvector_t, reg_t, *)
(* the buffers) are functions on 0..n-1, as in the source's indexing.      *)
(* The model is of the default build: DEBUG is not defined and             *)
(* omp_threads_ is 1, so every loop runs sequentially in increasing index. *)
(***************************************************************************)
EXTENDS Integers, Sequences, FiniteSets, TLC

VARIABLES
  num_qubits,                 \* size_t num_qubits_
  data_size,                  \* size_t data_size_
  data,                       \* data_t data_
  checkpoint,                 \* data_t checkpoint_ (nullptr when absent)
  sample_measure_index_size,  \* int sample_measure_index_size_
  json_chop_threshold,        \* double json_chop_threshold_
  status,                     \* outcome of the last public call
  op,                         \* name of the last public call
  args,                       \* arguments of the last public call
  ret,                        \* value returned by the last public call
  snap,                       \* history: data_ when checkpoint() last ran
  ref,                        \* buffer of a second, independent instance
  cnt                         \* number of calls made by a test sequence

vars == <<num_qubits, data_size, data, checkpoint, sample_measure_index_size,
          json_chop_threshold,
          status, op, args, ret, snap, ref, cnt>>

-----------------------------------------------------------------------------
(* Bounds of the model *)

\* largest qubit count of an instance in the life-cycle specification
MaxQubits == 2

-----------------------------------------------------------------------------
(* Build configuration and basic types *)

\* #ifdef DEBUG: the default build does not define it
DEBUG == FALSE

nullptr == << >>
NoArgs == << >>

size(v) == Cardinality(DOMAIN v)
Vec(s) == [i \in 0 .. Len(s) - 1 |-> s[i + 1]]

complex_t(re, im) == <<re, im>>
real(z) == z[1]
imag(z) == z[2]
conj(z) == <<z[1], 0 - z[2]>>
CAdd(a, b) == <<a[1] + b[1], a[2] + b[2]>>
CMul(a, b) == <<a[1] * b[1] - a[2] * b[2], a[1] * b[2] + a[2] * b[1]>>
CScale(r, z) == <<r * z[1], r * z[2]>>
CZero == <<0, 0>>
COne == <<1, 0>>
CI == <<0, 1>>
CMinusOne == <<-1, 0>>
CMinusI == <<0, -1>>

BITS(n) == 2 ^ n
MASKS(n) == 2 ^ n - 1

RECURSIVE BitOr(_, _)
BitOr(a, b) ==
  IF a = 0 THEN b
  ELSE IF b = 0 THEN a
  ELSE 2 * BitOr(a \div 2, b \div 2) + (IF a % 2 = 1 \/ b % 2 = 1 THEN 1 ELSE 0)

\* std::sort on a list of qubits
sort(v) == Vec(SortSeq([i \in 1 .. size(v) |-> v[i - 1]], LAMBDA x, y : x < y))

-----------------------------------------------------------------------------
(* Indexing *)

\* index0 shifting the high bits by qubits_sorted[j] instead of qubits_sorted[j] + 1
RECURSIVE index0_loop_no_gap(_, _, _)
index0_loop_no_gap(qubits_sorted, j, retval) ==
  IF j >= size(qubits_sorted) THEN retval
  ELSE LET q == qubits_sorted[j]
           lowbits == retval % BITS(q)
           shifted == (retval \div BITS(q)) * BITS(q)
       IN index0_loop_no_gap(qubits_sorted, j + 1, BitOr(shifted, lowbits))

RECURSIVE index0_loop(_, _, _)
index0_loop(qubits_sorted, j, retval) ==
  IF j >= size(qubits_sorted) THEN retval
  ELSE LET q == qubits_sorted[j]
           lowbits == retval % BITS(q)
           shifted == (retval \div BITS(q)) * BITS(q + 1)
       IN index0_loop(qubits_sorted, j + 1, BitOr(shifted, lowbits))

index0(qubits_sorted, k) == index0_loop(qubits_sorted, 0, k)

\* indexes taking the bit of entry n + j from the sorted position i
RECURSIVE indexes_loop_sorted(_, _, _, _)
indexes_loop_sorted(qs, N, i, r) ==
  IF i >= N THEN r
  ELSE LET n == BITS(i)
           bit == BITS(sort(qs)[i])
       IN indexes_loop_sorted(qs, N, i + 1,
            [m \in 0 .. 2 * n - 1 |-> IF m < n THEN r[m] ELSE BitOr(r[m - n], bit)])

RECURSIVE indexes_loop(_, _, _, _)
indexes_loop(qs, N, i, r) ==
  IF i >= N THEN r
  ELSE LET n == BITS(i)
           bit == BITS(qs[i])
       IN indexes_loop(qs, N, i + 1,
            [m \in 0 .. 2 * n - 1 |-> IF m < n THEN r[m] ELSE BitOr(r[m - n], bit)])

\* areg_t<1ULL << N> indexes(const areg_t<N>&, const areg_t<N>&, k)
indexes_static(qs, qubits_sorted, k) ==
  indexes_loop(qs, size(qs), 0, [m \in {0} |-> index0(qubits_sorted, k)])

\* indexes_t indexes(const reg_t&, const reg_t&, k)
indexes(qubits, qubits_sorted, k) ==
  indexes_loop(qubits, size(qubits_sorted), 0, [m \in {0} |-> index0(qubits_sorted, k)])

-----------------------------------------------------------------------------
(* Kernels: the lambda functions handed to apply_lambda.  Each takes the   *)
(* buffer d and the index table inds of one block and returns the buffer   *)
(* after the lambda ran on that block.                                     *)

swap_at(d, a, b) == [d EXCEPT ![a] = d[b], ![b] = d[a]]

RECURSIVE zero_loop(_, _, _)
zero_loop(d, inds, i) ==
  IF i >= size(inds) THEN d
  ELSE zero_loop([d EXCEPT ![inds[i]] = CZero], inds, i + 1)

RECURSIVE dot_loop(_, _, _, _, _)
dot_loop(mat, cache, DIM, i, j) ==
  IF j >= DIM THEN CZero
  ELSE CAdd(CMul(mat[i + DIM * j], cache[j]), dot_loop(mat, cache, DIM, i, j + 1))

RECURSIVE matrix_update_loop(_, _, _, _, _)
matrix_update_loop(d, inds, mat, cache, i) ==
  IF i >= size(inds) THEN d
  ELSE matrix_update_loop(
         [d EXCEPT ![inds[i]] = CAdd(d[inds[i]], dot_loop(mat, cache, size(inds), i, 0))],
         inds, mat, cache, i + 1)

\* N-qubit matrix multiplication (cases 2, 3, 4 and default of apply_matrix)
matrix_lambda(d, inds, mat) ==
  LET cache == [i \in DOMAIN inds |-> d[inds[i]]]
  IN matrix_update_loop(zero_loop(d, inds, 0), inds, mat, cache, 0)

RECURSIVE diagonal_loop(_, _, _, _)
diagonal_loop(d, inds, mat, i) ==
  IF i >= size(inds) THEN d
  ELSE diagonal_loop([d EXCEPT ![inds[i]] = CMul(d[inds[i]], mat[i])], inds, mat, i + 1)

\* N-qubit diagonal matrix multiplication
diagonal_lambda(d, inds, mat) == diagonal_loop(d, inds, mat, 0)

RECURSIVE permutation_loop(_, _, _, _)
permutation_loop(d, inds, pairs, p) ==
  IF p > Len(pairs) THEN d
  ELSE permutation_loop(swap_at(d, inds[pairs[p][1]], inds[pairs[p][2]]), inds, pairs, p + 1)

\* permutation matrix: swap the pairs in turn
permutation_lambda(d, inds, pairs) == permutation_loop(d, inds, pairs, 1)

\* the mcx kernel copying one way instead of swapping
mcx_lambda_copy(d, inds, pos0, pos1) == [d EXCEPT ![inds[pos1]] = d[inds[pos0]]]

\* mcx and mcswap: std::swap(data_[inds[pos0]], data_[inds[pos1]])
mcx_lambda(d, inds, pos0, pos1) == swap_at(d, inds[pos0], inds[pos1])

\* mcy writing i * data_[inds[pos0]] into both entries
mcy_lambda_both(d, inds, pos0, pos1) ==
  LET cache == d[inds[pos0]]
      d1 == [d EXCEPT ![inds[pos0]] = CMul(CI, cache)]
  IN [d1 EXCEPT ![inds[pos1]] = CMul(CI, cache)]

\* mcy
mcy_lambda(d, inds, pos0, pos1) ==
  LET cache == d[inds[pos0]]
      d1 == [d EXCEPT ![inds[pos0]] = CMul(CMinusI, d[inds[pos1]])]
  IN [d1 EXCEPT ![inds[pos1]] = CMul(CI, cache)]

\* mcz: data_[inds[pos]] *= -1.
mcz_lambda(d, inds, pos) == [d EXCEPT ![inds[pos]] = CScale(-1, d[inds[pos]])]

\* mcu, diagonal version: the lambda indexes data_ by pos0 and pos1 themselves
mcu_diag_lambda(d, inds, pos0, pos1, diag) ==
  LET d1 == [d EXCEPT ![pos0] = CMul(diag[0], d[pos0])]
  IN [d1 EXCEPT ![pos1] = CMul(diag[1], d1[pos1])]

\* mcu, non-diagonal version: the lambda indexes data_ by pos0 and pos1 themselves
mcu_lambda(d, inds, pos0, pos1, mat) ==
  LET cache == d[pos0]
      d1 == [d EXCEPT ![pos0] = CAdd(CMul(mat[0], d[pos0]), CMul(mat[2], d[pos1]))]
  IN [d1 EXCEPT ![pos1] = CAdd(CMul(mat[1], cache), CMul(mat[3], d1[pos1]))]

\* the single-qubit lambda reading the overwritten data_[pos0] instead of cache
matrix1_lambda_no_cache(d, inds, mat) ==
  LET pos0 == inds[0]
      pos1 == inds[1]
      d1 == [d EXCEPT ![pos0] = CAdd(CMul(mat[0], d[pos0]), CMul(mat[2], d[pos1]))]
  IN [d1 EXCEPT ![pos1] = CAdd(CMul(mat[1], d1[pos0]), CMul(mat[3], d1[pos1]))]

\* single-qubit matrix multiplication
matrix1_lambda(d, inds, mat) ==
  LET pos0 == inds[0]
      pos1 == inds[1]
      cache == d[pos0]
      d1 == [d EXCEPT ![pos0] = CAdd(CMul(mat[0], d[pos0]), CMul(mat[2], d[pos1]))]
  IN [d1 EXCEPT ![pos1] = CAdd(CMul(mat[1], cache), CMul(mat[3], d1[pos1]))]

\* single-qubit diagonal fast paths: each of them works on k = inds[1]
\* cache = imag; imag = real * -1; real = cache
phase_minus_i_lambda(d, inds) ==
  LET k == inds[1] IN [d EXCEPT ![k] = <<imag(d[k]), 0 - real(d[k])>>]

\* cache = imag; imag = real; real = cache * -1
phase_plus_i_lambda(d, inds) ==
  LET k == inds[1] IN [d EXCEPT ![k] = <<0 - imag(d[k]), real(d[k])>>]

\* data_[inds[pos]] = 0.0
project_lambda(d, inds, pos) == [d EXCEPT ![inds[pos]] = CZero]

\* data_[inds[pos]] *= _mat[pos]
scale_lambda(d, inds, pos, mat) == [d EXCEPT ![inds[pos]] = CMul(d[inds[pos]], mat[pos])]

\* data_[k0] *= _mat[0]; data_[k1] *= _mat[1]
diagonal1_lambda(d, inds, mat) ==
  LET d1 == [d EXCEPT ![inds[0]] = CMul(d[inds[0]], mat[0])]
  IN [d1 EXCEPT ![inds[1]] = CMul(d1[inds[1]], mat[1])]

\* the loop reading data_[inds[0]] again in every iteration instead of cache
RECURSIVE component_loop_no_cache(_, _, _, _, _)
component_loop_no_cache(d, inds, state, cache, i) ==
  IF i >= size(inds) THEN d
  ELSE component_loop_no_cache([d EXCEPT ![inds[i]] = CMul(d[inds[0]], state[i])],
                               inds, state, cache, i + 1)

\* for (i = 0; i < DIM; i++) data_[inds[i]] = cache * state[i];
RECURSIVE component_loop(_, _, _, _, _)
component_loop(d, inds, state, cache, i) ==
  IF i >= size(inds) THEN d
  ELSE component_loop([d EXCEPT ![inds[i]] = CMul(cache, state[i])], inds, state, cache, i + 1)

\* initialize_component
component_lambda(d, inds, state) == component_loop(d, inds, state, d[inds[0]], 0)

\* the call std::forward<Lambda>(func)(inds, params): f names the lambda and
\* carries what it captured
Call(f, d, inds) ==
  CASE f.kind = "matrix" -> matrix_lambda(d, inds, f.mat)
    [] f.kind = "diagonal" -> diagonal_lambda(d, inds, f.mat)
    [] f.kind = "permutation" -> permutation_lambda(d, inds, f.pairs)
    [] f.kind = "mcx" -> mcx_lambda(d, inds, f.pos0, f.pos1)
    [] f.kind = "mcy" -> mcy_lambda(d, inds, f.pos0, f.pos1)
    [] f.kind = "mcz" -> mcz_lambda(d, inds, f.pos)
    [] f.kind = "mcu_diag" -> mcu_diag_lambda(d, inds, f.pos0, f.pos1, f.mat)
    [] f.kind = "mcu" -> mcu_lambda(d, inds, f.pos0, f.pos1, f.mat)
    [] f.kind = "matrix1" -> matrix1_lambda(d, inds, f.mat)
    [] f.kind = "phase_minus_i" -> phase_minus_i_lambda(d, inds)
    [] f.kind = "phase_plus_i" -> phase_plus_i_lambda(d, inds)
    [] f.kind = "project" -> project_lambda(d, inds, f.pos)
    [] f.kind = "scale" -> scale_lambda(d, inds, f.pos, f.mat)
    [] f.kind = "diagonal1" -> diagonal1_lambda(d, inds, f.mat)
    [] f.kind = "component" -> component_lambda(d, inds, f.mat)

-----------------------------------------------------------------------------
(* Block iterator *)

RECURSIVE apply_lambda_loop(_, _, _, _, _, _, _)
apply_lambda_loop(f, d, qubits, qubits_sorted, static, k, END) ==
  IF k >= END THEN d
  ELSE LET inds == IF static THEN indexes_static(qubits, qubits_sorted, k)
                   ELSE indexes(qubits, qubits_sorted, k)
       IN apply_lambda_loop(f, Call(f, d, inds), qubits, qubits_sorted, static, k + 1, END)

\* apply_lambda(func, qubits) and apply_lambda(func, qubits, params); static
\* tells the areg_t<N> overload of indexes from the reg_t one.  The DEBUG
\* check_qubit loop is not compiled in.
apply_lambda(f, d, dsize, qubits, static) ==
  LET NUM_QUBITS == size(qubits)
      END == dsize \div BITS(NUM_QUBITS)
      qubits_sorted == sort(qubits)
  IN apply_lambda_loop(f, d, qubits, qubits_sorted, static, 0, END)

-----------------------------------------------------------------------------
(* Single-qubit matrices *)

IsZero(z) == z = CZero
IsOne(z) == z = COne

\* apply_diagonal_matrix(const uint_t qubit, const cvector_t& diag)
apply_diagonal_matrix1(d, dsize, qubit, diag) ==
  LET q == Vec(<<qubit>>)
      run(f) == apply_lambda(f, d, dsize, q, TRUE)
  IN IF IsOne(diag[0])
     THEN IF IsOne(diag[1]) THEN d
          ELSE IF diag[1] = CMinusI THEN run([kind |-> "phase_minus_i"])
          ELSE IF diag[1] = CI THEN run([kind |-> "phase_plus_i"])
          ELSE IF IsZero(diag[0]) THEN run([kind |-> "project", pos |-> 1])
          ELSE run([kind |-> "scale", pos |-> 1, mat |-> diag])
     ELSE IF IsOne(diag[1])
     THEN IF diag[0] = CMinusI THEN run([kind |-> "phase_minus_i"])
          ELSE IF diag[0] = CI THEN run([kind |-> "phase_plus_i"])
          ELSE IF IsZero(diag[0]) THEN run([kind |-> "project", pos |-> 0])
          ELSE run([kind |-> "scale", pos |-> 0, mat |-> diag])
     ELSE run([kind |-> "diagonal1", mat |-> diag])

\* apply_matrix(const uint_t qubit, const cvector_t& mat)
apply_matrix1(d, dsize, qubit, mat) ==
  IF IsZero(mat[1]) /\ IsZero(mat[2])
  THEN apply_diagonal_matrix1(d, dsize, qubit, Vec(<<mat[0], mat[3]>>))
  ELSE apply_lambda([kind |-> "matrix1", mat |-> mat], d, dsize, Vec(<<qubit>>), TRUE)

-----------------------------------------------------------------------------
(* N-qubit matrices *)

\* apply_matrix(const reg_t &qubits, const cvector_t &mat)
apply_matrix(d, dsize, qubits, mat) ==
  LET N == size(qubits)
  IN IF N = 1 THEN apply_matrix1(d, dsize, qubits[0], mat)
     ELSE apply_lambda([kind |-> "matrix", mat |-> mat], d, dsize, qubits, N \in {2, 3, 4})

\* apply_diagonal_matrix(const reg_t &qubits, const cvector_t &diag)
apply_diagonal_matrix(d, dsize, qubits, diag) ==
  LET N == size(qubits)
  IN IF N = 1 THEN apply_diagonal_matrix1(d, dsize, qubits[0], diag)
     ELSE apply_lambda([kind |-> "diagonal", mat |-> diag], d, dsize, qubits, N \in {2, 3, 4})

\* apply_permutation_matrix(qubits, pairs)
apply_permutation_matrix(d, dsize, qubits, pairs) ==
  apply_lambda([kind |-> "permutation", pairs |-> pairs], d, dsize, qubits,
               size(qubits) \in {1, 2, 3, 4})

-----------------------------------------------------------------------------
(* Multi-controlled gates *)

\* apply_mcx exchanging the pairs of the target qubit whatever the controls are
apply_mcx_target_only(d, dsize, qubits) ==
  apply_lambda([kind |-> "mcx", pos0 |-> 0, pos1 |-> 1], d, dsize,
               Vec(<<qubits[size(qubits) - 1]>>), TRUE)

\* apply_mcx(const reg_t &qubits)
apply_mcx(d, dsize, qubits) ==
  LET N == size(qubits)
      pos0 == MASKS(N - 1)
      pos1 == MASKS(N)
  IN apply_lambda([kind |-> "mcx", pos0 |-> pos0, pos1 |-> pos1], d, dsize, qubits,
                  N \in {1, 2, 3})

\* apply_mcy(const reg_t &qubits)
apply_mcy(d, dsize, qubits) ==
  LET N == size(qubits)
      pos0 == MASKS(N - 1)
      pos1 == MASKS(N)
  IN apply_lambda([kind |-> "mcy", pos0 |-> pos0, pos1 |-> pos1], d, dsize, qubits,
                  N \in {1, 2, 3})

\* apply_mcz(const reg_t &qubits)
apply_mcz(d, dsize, qubits) ==
  LET N == size(qubits)
      pos == CASE N = 1 -> 1 [] N = 2 -> 3 [] N = 3 -> 7 [] OTHER -> MASKS(N)
  IN apply_lambda([kind |-> "mcz", pos |-> pos], d, dsize, qubits, N \in {1, 2, 3})

\* apply_mcswap exchanging the two target qubits whatever the controls are
apply_mcswap_no_controls(d, dsize, qubits) ==
  apply_lambda([kind |-> "mcx", pos0 |-> 1, pos1 |-> 2], d, dsize,
               Vec(<<qubits[size(qubits) - 2], qubits[size(qubits) - 1]>>), TRUE)

\* apply_mcswap(const reg_t &qubits)
apply_mcswap(d, dsize, qubits) ==
  LET N == size(qubits)
      pos0 == MASKS(N - 1)
      pos1 == pos0 + BITS(N - 2)
  IN apply_lambda([kind |-> "mcx", pos0 |-> pos0, pos1 |-> pos1], d, dsize, qubits,
                  N \in {2, 3})

\* apply_mcu(const reg_t &qubits, const cvector_t &mat)
apply_mcu(d, dsize, qubits, mat) ==
  LET N == size(qubits)
      pos0 == MASKS(N - 1)
      pos1 == MASKS(N)
  IN IF IsZero(mat[1]) /\ IsZero(mat[2])
     THEN LET diag == Vec(<<mat[0], mat[3]>>)
          IN IF N = 1 THEN apply_diagonal_matrix1(d, dsize, qubits[0], diag)
             ELSE apply_lambda([kind |-> "mcu_diag", pos0 |-> pos0, pos1 |-> pos1, mat |-> diag],
                               d, dsize, qubits, N \in {2, 3})
     ELSE IF N = 1 THEN apply_matrix1(d, dsize, qubits[0], mat)
          ELSE apply_lambda([kind |-> "mcu", pos0 |-> pos0, pos1 |-> pos1, mat |-> mat],
                            d, dsize, qubits, N \in {2, 3})

\* initialize_component(const reg_t &qubits, const cvector_t &state)
initialize_component(d, dsize, qubits, state) ==
  apply_lambda([kind |-> "component", mat |-> state], d, dsize, qubits, FALSE)

-----------------------------------------------------------------------------
(* Norms of a matrix applied to the state: norm(qubits, mat),              *)
(* norm_diagonal(qubits, mat) and their single-qubit forms                 *)

\* val_re += real(vi * conj(vi)) with vi = sum over j of mat[i + DIM * j] * data_[inds[j]]
norm_matrix_lambda(d, inds, mat) ==
  LET DIM == size(inds)
      RECURSIVE vi(_, _)
      vi(i, j) == IF j >= DIM THEN CZero
                  ELSE CAdd(CMul(mat[i + DIM * j], d[inds[j]]), vi(i, j + 1))
      RECURSIVE rows(_)
      rows(i) == IF i >= DIM THEN 0
                 ELSE real(CMul(vi(i, 0), conj(vi(i, 0)))) + rows(i + 1)
  IN rows(0)

\* val_re += real(vi * conj(vi)) with vi = mat[i] * data_[inds[i]]
norm_diagonal_lambda(d, inds, mat) ==
  LET RECURSIVE rows(_)
      rows(i) == IF i >= size(inds) THEN 0
                 ELSE LET vi == CMul(mat[i], d[inds[i]])
                      IN real(CMul(vi, conj(vi))) + rows(i + 1)
  IN rows(0)

\* the single-qubit lambda with mat read row by row
norm_matrix1_lambda_transposed(d, inds, mat) ==
  LET v0 == CAdd(CMul(mat[0], d[inds[0]]), CMul(mat[1], d[inds[1]]))
      v1 == CAdd(CMul(mat[2], d[inds[0]]), CMul(mat[3], d[inds[1]]))
  IN real(CMul(v0, conj(v0))) + real(CMul(v1, conj(v1)))

\* the lambda of norm(qubit, mat)
norm_matrix1_lambda(d, inds, mat) ==
  LET v0 == CAdd(CMul(mat[0], d[inds[0]]), CMul(mat[2], d[inds[1]]))
      v1 == CAdd(CMul(mat[1], d[inds[0]]), CMul(mat[3], d[inds[1]]))
  IN real(CMul(v0, conj(v0))) + real(CMul(v1, conj(v1)))

\* the lambda of norm_diagonal(qubit, mat)
norm_diagonal1_lambda(d, inds, mat) ==
  LET v0 == CMul(mat[0], d[inds[0]])
      v1 == CMul(mat[1], d[inds[1]])
  IN real(CMul(v0, conj(v0))) + real(CMul(v1, conj(v1)))

\* func(inds, params, val_re, val_im)
Reduce(f, d, inds) ==
  CASE f.kind = "norm" -> norm_matrix_lambda(d, inds, f.mat)
    [] f.kind = "norm_diagonal" -> norm_diagonal_lambda(d, inds, f.mat)
    [] f.kind = "norm1" -> norm_matrix1_lambda(d, inds, f.mat)
    [] f.kind = "norm_diagonal1" -> norm_diagonal1_lambda(d, inds, f.mat)

\* apply_reduction_lambda(func, qubits, params); only val_re is used by the
\* callers
apply_reduction_lambda(f, d, dsize, qubits, static) ==
  LET END == dsize \div BITS(size(qubits))
      qubits_sorted == sort(qubits)
      RECURSIVE loop(_)
      loop(k) ==
        IF k >= END THEN 0
        ELSE LET inds == IF static THEN indexes_static(qubits, qubits_sorted, k)
                         ELSE indexes(qubits, qubits_sorted, k)
             IN Reduce(f, d, inds) + loop(k + 1)
  IN loop(0)

\* norm_diagonal(const uint_t qubit, const cvector_t &mat)
norm_diagonal1(d, dsize, qubit, mat) ==
  apply_reduction_lambda([kind |-> "norm_diagonal1", mat |-> mat], d, dsize,
                         Vec(<<qubit>>), TRUE)

\* norm(const uint_t qubit, const cvector_t &mat)
norm_matrix1(d, dsize, qubit, mat) ==
  IF IsZero(mat[1]) /\ IsZero(mat[2])
  THEN norm_diagonal1(d, dsize, qubit, Vec(<<mat[0], mat[3]>>))
  ELSE apply_reduction_lambda([kind |-> "norm1", mat |-> mat], d, dsize,
                              Vec(<<qubit>>), TRUE)

\* norm(const reg_t &qubits, const cvector_t &mat)
norm_matrix(d, dsize, qubits, mat) ==
  LET N == size(qubits)
  IN IF N = 1 THEN norm_matrix1(d, dsize, qubits[0], mat)
     ELSE apply_reduction_lambda([kind |-> "norm", mat |-> mat], d, dsize, qubits,
                                 N \in {2, 3, 4})

\* norm_diagonal(const reg_t &qubits, const cvector_t &mat)
norm_diagonal(d, dsize, qubits, mat) ==
  LET N == size(qubits)
  IN IF N = 1 THEN norm_diagonal1(d, dsize, qubits[0], mat)
     ELSE apply_reduction_lambda([kind |-> "norm_diagonal", mat |-> mat], d, dsize,
                                 qubits, N \in {2, 3, 4})

-----------------------------------------------------------------------------
(* Gate fusion: swap_cols_and_rows, sort_matrix, expand_matrix,            *)
(* apply_matrix_sequence                                                   *)

Min(S) == CHOOSE x \in S : \A y \in S : x <= y

\* (x & mask) != 0 for a one-bit mask
BitSet(x, mask) == (x \div mask) % 2 = 1

\* std::distance(v.begin(), std::find(v.begin(), v.end(), x))
Find(v, x) ==
  LET hits == {i \in DOMAIN v : v[i] = x}
  IN IF hits = {} THEN size(v) ELSE Min(hits)

RECURSIVE swap_rows_loop(_, _, _, _, _)
swap_rows_loop(mat, first, second, dim, i) ==
  IF i >= dim THEN mat
  ELSE swap_rows_loop(swap_at(mat, first * dim + i, second * dim + i),
                      first, second, dim, i + 1)

RECURSIVE swap_cols_loop(_, _, _, _, _)
swap_cols_loop(mat, first, second, dim, i) ==
  IF i >= dim THEN mat
  ELSE swap_cols_loop(swap_at(mat, i * dim + first, i * dim + second),
                      first, second, dim, i + 1)

RECURSIVE swap_first_loop(_, _, _, _, _)
swap_first_loop(mask1, mask2, mat, dim, first) ==
  IF first >= dim THEN mat
  ELSE IF BitSet(first, mask1) /\ ~BitSet(first, mask2)
  THEN LET second == (first - mask1) + mask2
           rows == swap_rows_loop(mat, first, second, dim, 0)
       IN swap_first_loop(mask1, mask2, swap_cols_loop(rows, first, second, dim, 0),
                          dim, first + 1)
  ELSE swap_first_loop(mask1, mask2, mat, dim, first + 1)

\* swap_cols_and_rows(idx1, idx2, mat, dim)
swap_cols_and_rows(idx1, idx2, mat, dim) ==
  swap_first_loop(BITS(idx1), BITS(idx2), mat, dim, 0)

\* the loop body looking for the swap partner from position from + 2 on
sort_matrix_step_skip_next(current, sorted, mat, DIM) ==
  LET n == size(current)
      diff == {i \in 0 .. n - 1 : current[i] # sorted[i]}
      from == IF diff = {} THEN n ELSE Min(diff)
      hits == {i \in from + 2 .. n - 1 : current[from] = sorted[i]}
      to == IF hits = {} THEN n ELSE Min(hits)
  IN IF from = n THEN [exit |-> "break", current |-> current, ret |-> mat]
     ELSE IF to = n THEN [exit |-> "throw", current |-> current, ret |-> mat]
     ELSE [exit |-> "swap", current |-> swap_at(current, from, to),
           ret |-> swap_cols_and_rows(from, to, mat, DIM)]

\* the body of while (current != sorted): it breaks, throws, or swaps once
sort_matrix_step(current, sorted, mat, DIM) ==
  LET n == size(current)
      diff == {i \in 0 .. n - 1 : current[i] # sorted[i]}
      from == IF diff = {} THEN n ELSE Min(diff)
      hits == {i \in from + 1 .. n - 1 : current[from] = sorted[i]}
      to == IF hits = {} THEN n ELSE Min(hits)
  IN IF from = n THEN [exit |-> "break", current |-> current, ret |-> mat]
     ELSE IF to = n THEN [exit |-> "throw", current |-> current, ret |-> mat]
     ELSE [exit |-> "swap", current |-> swap_at(current, from, to),
           ret |-> swap_cols_and_rows(from, to, mat, DIM)]

\* while (current != sorted) { ... }
RECURSIVE sort_matrix_loop(_, _, _, _)
sort_matrix_loop(current, sorted, mat, DIM) ==
  IF current = sorted THEN [threw |-> FALSE, ret |-> mat]
  ELSE LET s == sort_matrix_step(current, sorted, mat, DIM)
       IN IF s.exit = "swap" THEN sort_matrix_loop(s.current, sorted, s.ret, DIM)
          ELSE [threw |-> s.exit = "throw", ret |-> mat]

\* sort_matrix(src, sorted, mat)
sort_matrix(src, sorted, mat) == sort_matrix_loop(src, sorted, mat, BITS(size(src)))

\* the assignments u[(i + offs[r]) + (i + offs[c]) * dst_dim] = vmat[r + c * src_dim],
\* in the order they are written
RECURSIVE expand_write_loop(_, _, _, _, _, _, _)
expand_write_loop(u, i, offs, vmat, src_dim, dst_dim, n) ==
  IF n >= src_dim * src_dim THEN u
  ELSE LET r == n \div src_dim
           c == n % src_dim
       IN expand_write_loop(
            [u EXCEPT ![(i + offs[r]) + (i + offs[c]) * dst_dim] = vmat[r + c * src_dim]],
            i, offs, vmat, src_dim, dst_dim, n + 1)

\* for (i = 0; i < dst_dim; ++i) { if (filled[i]) continue; ... }
RECURSIVE expand_fill_loop(_, _, _, _, _, _, _)
expand_fill_loop(u, filled, i, offs, vmat, src_dim, dst_dim) ==
  IF i >= dst_dim THEN u
  ELSE IF i \in filled
  THEN expand_fill_loop(u, filled, i + 1, offs, vmat, src_dim, dst_dim)
  ELSE expand_fill_loop(expand_write_loop(u, i, offs, vmat, src_dim, dst_dim, 0),
                        filled \cup {i + offs[r] : r \in DOMAIN offs},
                        i + 1, offs, vmat, src_dim, dst_dim)

\* expand_matrix(src_qubits, dst_sorted_qubits, vmat)
expand_matrix(src_qubits, dst_sorted_qubits, vmat) ==
  LET dst_dim == BITS(size(dst_sorted_qubits))
      src_dim == BITS(size(src_qubits))
      u0 == [x \in 0 .. dst_dim * dst_dim - 1 |-> CZero]
  IN IF size(src_qubits) = 1
     THEN LET delta == BITS(Find(dst_sorted_qubits, src_qubits[0]))
          IN [threw |-> FALSE,
              u |-> expand_fill_loop(u0, {}, 0, Vec(<<0, delta>>), vmat, src_dim, dst_dim)]
     ELSE IF size(src_qubits) = 2
     THEN LET sorted_vmat == sort_matrix(src_qubits, sort(src_qubits), vmat)
              low_delta == BITS(Find(dst_sorted_qubits, src_qubits[0]))
              high_delta == BITS(Find(dst_sorted_qubits, src_qubits[1]))
              offs == Vec(<<0, low_delta, high_delta, low_delta + high_delta>>)
          IN [threw |-> sorted_vmat.threw,
              u |-> IF sorted_vmat.threw THEN u0
                    ELSE expand_fill_loop(u0, {}, 0, offs, sorted_vmat.ret, src_dim, dst_dim)]
     ELSE [threw |-> TRUE, u |-> u0]

\* for (i = 0; i < regs.size(); ++i) apply_matrix(regs[i], mats[i])
RECURSIVE apply_each_loop(_, _, _, _, _)
apply_each_loop(d, dsize, regs, mats, i) ==
  IF i >= size(regs) THEN d
  ELSE apply_each_loop(apply_matrix(d, dsize, regs[i], mats[i]), dsize, regs, mats, i + 1)

\* the distinct qubits of regs in the order they are first met
RECURSIVE collect_qubits(_, _, _, _)
collect_qubits(regs, i, j, acc) ==
  IF i >= size(regs) THEN acc
  ELSE IF j >= size(regs[i]) THEN collect_qubits(regs, i + 1, 0, acc)
  ELSE collect_qubits(regs, i, j + 1,
                      IF \E a \in 1 .. Len(acc) : acc[a] = regs[i][j]
                      THEN acc ELSE Append(acc, regs[i][j]))

RECURSIVE product_loop(_, _, _, _, _, _)
product_loop(u, U, dim, i, j, k) ==
  IF k >= dim THEN CZero
  ELSE CAdd(CMul(u[i + k * dim], U[k + j * dim]), product_loop(u, U, dim, i, j, k + 1))

\* u_tmp[i + j * dim] += u[i + k * dim] * U[k + j * dim]
product(u, U, dim) ==
  [x \in 0 .. dim * dim - 1 |-> product_loop(u, U, dim, x % dim, x \div dim, 0)]

RECURSIVE fuse_loop(_, _, _, _)
fuse_loop(sorted_mats, U, m, dim) ==
  IF m >= size(sorted_mats) THEN U
  ELSE fuse_loop(sorted_mats, product(sorted_mats[m], U, dim), m + 1, dim)

\* apply_matrix_sequence(regs, mats)
apply_matrix_sequence(d, dsize, regs, mats) ==
  IF size(mats) = 0 THEN [threw |-> FALSE, data |-> d]
  ELSE IF DEBUG THEN [threw |-> TRUE, data |-> d]
  ELSE IF \E i \in DOMAIN regs : size(regs[i]) > 2
  THEN [threw |-> FALSE, data |-> apply_each_loop(d, dsize, regs, mats, 0)]
  ELSE LET sorted_qubits == sort(Vec(collect_qubits(regs, 0, 0, << >>)))
           expanded == [i \in DOMAIN regs |-> expand_matrix(regs[i], sorted_qubits, mats[i])]
           sorted_mats == [i \in DOMAIN regs |-> expanded[i].u]
           dim == BITS(size(sorted_qubits))
           U == fuse_loop(sorted_mats, sorted_mats[0], 1, dim)
       IN IF \E i \in DOMAIN regs : expanded[i].threw
          THEN [threw |-> TRUE, data |-> d]
          ELSE [threw |-> FALSE, data |-> apply_matrix(d, dsize, sorted_qubits, U)]

-----------------------------------------------------------------------------
(* Reductions, norm and inner product *)

\* probability(outcome): std::real(v * std::conj(v))
probability(d, outcome) == real(CMul(d[outcome], conj(d[outcome])))

RECURSIVE norm_loop(_, _, _)
norm_loop(d, k, END) ==
  IF k >= END THEN 0
  ELSE real(CMul(d[k], conj(d[k]))) + norm_loop(d, k + 1, END)

\* norm(): val_re += std::real(data_[k] * std::conj(data_[k])) over all k
norm(d, dsize) == norm_loop(d, 0, dsize)

RECURSIVE inner_product_loop(_, _, _, _)
inner_product_loop(d, c, k, END) ==
  IF k >= END THEN CZero
  ELSE CAdd(CMul(d[k], conj(c[k])), inner_product_loop(d, c, k + 1, END))

\* inner_product(): reduction of data_[k] * std::conj(checkpoint_[k])
inner_product(d, c, dsize) == inner_product_loop(d, c, 0, dsize)

-----------------------------------------------------------------------------
(* JSON serialization.  A json array of [re, im] entries is a vector of pairs. *)

abs(x) == IF x < 0 THEN -x ELSE x

\* json() keeping the parts with abs >= threshold
json_keep_equal(d, dsize, threshold) ==
  IF threshold > 0
  THEN [j \in 0 .. dsize - 1 |->
          <<IF abs(real(d[j])) >= threshold THEN real(d[j]) ELSE 0,
            IF abs(imag(d[j])) >= threshold THEN imag(d[j]) ELSE 0>>]
  ELSE [j \in 0 .. dsize - 1 |-> <<real(d[j]), imag(d[j])>>]

\* json(): js = json_t(data_size_, ZERO), then the parts above the threshold
\* (every part when the threshold is not positive) are written
json(d, dsize, threshold) ==
  IF threshold > 0
  THEN [j \in 0 .. dsize - 1 |->
          <<IF abs(real(d[j])) > threshold THEN real(d[j]) ELSE real(CZero),
            IF abs(imag(d[j])) > threshold THEN imag(d[j]) ELSE imag(CZero)>>]
  ELSE [j \in 0 .. dsize - 1 |-> <<real(d[j]), imag(d[j])>>]

-----------------------------------------------------------------------------
(* Probabilities *)

\* probabilities(): probs[j] = probability(j)
probabilities_all(d, dsize) == [j \in 0 .. dsize - 1 |-> probability(d, j)]

\* apply_reduction_lambda(lambda, {qubit}) with
\* val_p0 += probability(inds[0]); val_p1 += probability(inds[1])
RECURSIVE probabilities1_loop(_, _, _, _, _)
probabilities1_loop(d, qubit, k, END, val) ==
  IF k >= END THEN val
  ELSE LET inds == indexes_static(Vec(<<qubit>>), Vec(<<qubit>>), k)
       IN probabilities1_loop(d, qubit, k + 1, END,
            <<val[1] + probability(d, inds[0]), val[2] + probability(d, inds[1])>>)

\* probabilities(const uint_t qubit)
probabilities1(d, dsize, qubit) ==
  LET p0p1 == probabilities1_loop(d, qubit, 0, dsize \div 2, <<0, 0>>)
  IN Vec(<<real(p0p1), imag(p0p1)>>)

\* for (k = 0; k < END; k++) { idx = indexes(qubits, qubits_sorted, k);
\*   for (m = 0; m < DIM; ++m) probs_private[m] += probability(idx[m]); }
RECURSIVE probabilities_loop(_, _, _, _, _, _)
probabilities_loop(d, qubits, qubits_sorted, k, END, probs) ==
  IF k >= END THEN probs
  ELSE LET idx == indexes(qubits, qubits_sorted, k)
       IN probabilities_loop(d, qubits, qubits_sorted, k + 1, END,
            [m \in DOMAIN probs |-> probs[m] + probability(d, idx[m])])

\* the shortcut to probabilities() taken for every list of all the qubits
probabilities_any_order(d, dsize, nq, qubits) ==
  LET N == size(qubits)
  IN IF N = 1 THEN probabilities1(d, dsize, qubits[0])
     ELSE IF N = 0 THEN Vec(<<norm(d, dsize)>>)
     ELSE IF N = nq THEN probabilities_all(d, dsize)
     ELSE probabilities_loop(d, qubits, sort(qubits), 0, BITS(nq - N),
                             [m \in 0 .. BITS(N) - 1 |-> 0])

\* the block loop stopping one block early
probabilities_short(d, dsize, nq, qubits) ==
  LET N == size(qubits)
  IN IF N = 1 THEN probabilities1(d, dsize, qubits[0])
     ELSE IF N = 0 THEN Vec(<<norm(d, dsize)>>)
     ELSE IF N = nq /\ qubits = sort(qubits) THEN probabilities_all(d, dsize)
     ELSE probabilities_loop(d, qubits, sort(qubits), 0, BITS(nq - N) - 1,
                             [m \in 0 .. BITS(N) - 1 |-> 0])

\* probabilities(const reg_t &qubits)
probabilities(d, dsize, nq, qubits) ==
  LET N == size(qubits)
      DIM == BITS(N)
      END == BITS(nq - N)
      qubits_sorted == sort(qubits)
  IN IF N = 1 THEN probabilities1(d, dsize, qubits[0])
     ELSE IF N = 0 THEN Vec(<<norm(d, dsize)>>)
     ELSE IF N = nq /\ qubits = qubits_sorted THEN probabilities_all(d, dsize)
     ELSE probabilities_loop(d, qubits, qubits_sorted, 0, END, [m \in 0 .. DIM - 1 |-> 0])

-----------------------------------------------------------------------------
(* Sampling.  A random real is held as the integer rn with rnd = rn / RndDen. *)

RndDen == 2

\* rnd < p
rnd_less(rn, p) == rn < p * RndDen

\* the walk breaking on rnd <= p instead of rnd < p
RECURSIVE sample_walk_le(_, _, _, _, _)
sample_walk_le(d, rn, p, sample, END) ==
  IF sample >= END - 1 THEN sample
  ELSE LET q == p + real(CMul(conj(d[sample]), d[sample]))
       IN IF rn <= q * RndDen THEN sample
          ELSE sample_walk_le(d, rn, q, sample + 1, END)

\* for (; sample < END - 1; ++sample) { p += |data_[sample]|^2; if (rnd < p) break; }
RECURSIVE sample_walk(_, _, _, _, _)
sample_walk(d, rn, p, sample, END) ==
  IF sample >= END - 1 THEN sample
  ELSE LET q == p + real(CMul(conj(d[sample]), d[sample]))
       IN IF rnd_less(rn, q) THEN sample
          ELSE sample_walk(d, rn, q, sample + 1, END)

\* total += |data_[base | j]|^2 for j < loop
RECURSIVE block_total(_, _, _, _)
block_total(d, base, j, loop) ==
  IF j >= loop THEN 0
  ELSE real(CMul(conj(d[base + j]), d[base + j])) + block_total(d, base, j + 1, loop)

\* the loop over idxs adding the block totals to p without advancing sample
RECURSIVE index_walk_no_skip(_, _, _, _, _, _)
index_walk_no_skip(idxs, rn, p, sample, j, loop) ==
  IF j >= size(idxs) THEN [p |-> p, sample |-> sample]
  ELSE IF rnd_less(rn, p + idxs[j]) THEN [p |-> p, sample |-> sample]
  ELSE index_walk_no_skip(idxs, rn, p + idxs[j], sample, j + 1, loop)

\* the loop over idxs: stops at the first j with rnd < p + idxs[j]
RECURSIVE index_walk(_, _, _, _, _, _)
index_walk(idxs, rn, p, sample, j, loop) ==
  IF j >= size(idxs) THEN [p |-> p, sample |-> sample]
  ELSE IF rnd_less(rn, p + idxs[j]) THEN [p |-> p, sample |-> sample]
  ELSE index_walk(idxs, rn, p + idxs[j], sample + loop, j + 1, loop)

\* sample_measure(const std::vector<double> &rnds)
sample_measure(d, dsize, INDEX_SIZE, rnds) ==
  LET END == dsize
      INDEX_END == BITS(INDEX_SIZE)
  IN IF END < INDEX_END
     THEN [i \in DOMAIN rnds |-> sample_walk(d, rnds[i], 0, 0, END)]
     ELSE LET loop == END \div INDEX_END
              idxs == [i \in 0 .. INDEX_END - 1 |-> block_total(d, loop * i, 0, loop)]
          IN [i \in DOMAIN rnds |->
                LET c == index_walk(idxs, rnds[i], 0, 0, 0, loop)
                IN sample_walk(d, rnds[i], c.p, c.sample, END)]

-----------------------------------------------------------------------------
(* Inputs of the life-cycle specification *)

Phases == {COne, CI, CMinusOne, CMinusI}

\* a buffer with the single nonzero entry p at index j
Basis(n, j, p) == [k \in 0 .. n - 1 |-> IF k = j THEN p ELSE CZero]

\* contents a freshly malloc'ed buffer of n amplitudes may hold
Uninit(n) == {Basis(n, n - 1, p) : p \in {CZero, CI, CMinusOne}}

\* lists of k distinct qubits out of 0..n-1, in every order
RegsOfLen(n, k) ==
  {q \in [0 .. k - 1 -> 0 .. n - 1] : \A a, b \in 0 .. k - 1 : a # b => q[a] # q[b]}

Regs(n, lo) == UNION {RegsOfLen(n, k) : k \in lo .. n}

\* column-major k-qubit matrices: a cyclic shift of the basis, and a phase on
\* the last basis state
ShiftMatrix(k) ==
  [x \in 0 .. BITS(2 * k) - 1 |->
     IF x % BITS(k) = ((x \div BITS(k)) + 1) % BITS(k) THEN COne ELSE CZero]

PhaseMatrix(k, p) ==
  [x \in 0 .. BITS(2 * k) - 1 |->
     IF x % BITS(k) # x \div BITS(k) THEN CZero
     ELSE IF x % BITS(k) = BITS(k) - 1 THEN p ELSE COne]

UnitMatrices(k) == {ShiftMatrix(k), PhaseMatrix(k, CI), PhaseMatrix(k, CMinusOne)}

\* diagonals: a phase or a zero on the last entry, a phase on the first one
UnitDiagonals(k) ==
  {[i \in 0 .. BITS(k) - 1 |-> IF i = BITS(k) - 1 THEN p ELSE COne] : p \in {CI, CZero}}
  \cup {[i \in 0 .. BITS(k) - 1 |-> IF i = 0 THEN CMinusI ELSE COne]}

PairLists(k) == {<<<<0, BITS(k) - 1>>>>, <<<<0, 1>>, <<0, BITS(k) - 1>>>>}

InputVectors == UNION {{Basis(BITS(n), j, p) : j \in {0, BITS(n) - 1}, p \in {COne, CI}}
                       : n \in 0 .. MaxQubits}

-----------------------------------------------------------------------------
(* Life cycle: construction, resizing, checkpoints, initialization *)

Alive == status # "crashed"

\* the history variable follows the checkpoint buffer's lifetime
SnapKept == IF checkpoint = nullptr THEN nullptr ELSE snap

\* cnt = 1 when a call changed the buffer since the checkpoint was taken
Touched(newdata) ==
  IF checkpoint = nullptr THEN 0 ELSE IF newdata # data THEN 1 ELSE cnt

Idle == UNCHANGED <<sample_measure_index_size, json_chop_threshold, ref>>

\* QubitVector(size_t num_qubits): num_qubits_(0), data_(nullptr),
\* checkpoint_(0), then set_num_qubits(num_qubits)
Init ==
  /\ num_qubits \in 0 .. MaxQubits
  /\ data_size = BITS(num_qubits)
  /\ data \in Uninit(BITS(num_qubits))
  /\ checkpoint = nullptr
  /\ sample_measure_index_size = 10
  /\ json_chop_threshold = 0
  /\ status = "ok"
  /\ op = "QubitVector"
  /\ args = NoArgs
  /\ ret = NoArgs
  /\ snap = nullptr
  /\ ref = nullptr
  /\ cnt = 0

\* set_num_qubits with the size taken as 2 * num_qubits
SetNumQubits_WrongSize(n) ==
  /\ Alive
  /\ num_qubits' = n
  /\ data_size' = 2 * n
  /\ checkpoint' = nullptr
  /\ IF data # nullptr /\ num_qubits = n
     THEN data' = data
     ELSE data' \in Uninit(BITS(n))
  /\ status' = "ok"
  /\ op' = "set_num_qubits"
  /\ args' = NoArgs
  /\ ret' = NoArgs
  /\ snap' = nullptr
  /\ cnt' = 0
  /\ Idle

\* set_num_qubits that does not free the checkpoint
SetNumQubits_KeepCheckpoint(n) ==
  /\ Alive
  /\ num_qubits' = n
  /\ data_size' = BITS(n)
  /\ checkpoint' = checkpoint
  /\ IF data # nullptr /\ num_qubits = n
     THEN data' = data
     ELSE data' \in Uninit(BITS(n))
  /\ status' = "ok"
  /\ op' = "set_num_qubits"
  /\ args' = NoArgs
  /\ ret' = NoArgs
  /\ snap' = snap
  /\ cnt' = 0
  /\ Idle

\* set_num_qubits(size_t num_qubits)
SetNumQubits(n) ==
  /\ Alive
  /\ num_qubits' = n
  /\ data_size' = BITS(n)
  /\ checkpoint' = nullptr
  /\ IF data # nullptr /\ num_qubits = n
     THEN data' = data
     ELSE data' \in Uninit(BITS(n))
  /\ status' = "ok"
  /\ op' = "set_num_qubits"
  /\ args' = NoArgs
  /\ ret' = NoArgs
  /\ snap' = nullptr
  /\ cnt' = 0
  /\ Idle

\* the copy loop stopping one element early
copy_loop_short(dst, src, END) ==
  [k \in DOMAIN dst |-> IF k < END - 1 THEN src[k] ELSE dst[k]]

\* the loops dst[k] = src[k], k < END, of checkpoint(), revert() and
\* initialize_from_vector()
copy_loop(dst, src, END) ==
  [k \in DOMAIN dst |-> IF k < END THEN src[k] ELSE dst[k]]

\* checkpoint()
Checkpoint ==
  /\ Alive
  /\ checkpoint' = IF checkpoint = nullptr
                   THEN copy_loop([k \in 0 .. data_size - 1 |-> CZero], data, data_size)
                   ELSE copy_loop(checkpoint, data, data_size)
  /\ snap' = data
  /\ status' = "ok"
  /\ op' = "checkpoint"
  /\ args' = NoArgs
  /\ ret' = NoArgs
  /\ cnt' = 0
  /\ UNCHANGED <<num_qubits, data_size, data>>
  /\ Idle

\* revert that releases the checkpoint whatever keep is
Revert_AlwaysRelease(keep) ==
  /\ Alive
  /\ op' = "revert"
  /\ args' = [keep |-> keep]
  /\ ret' = NoArgs
  /\ UNCHANGED <<num_qubits, data_size, cnt>>
  /\ Idle
  /\ IF checkpoint = nullptr
     THEN /\ UNCHANGED checkpoint
          /\ snap' = nullptr
          /\ \/ status' = "crashed" /\ data' = data
             \/ status' = "ok" /\ data' \in Uninit(data_size)
     ELSE /\ data' = [k \in DOMAIN data |-> IF k < data_size THEN checkpoint[k] ELSE data[k]]
          /\ checkpoint' = nullptr
          /\ snap' = snap
          /\ status' = "ok"

\* revert(bool keep).  check_checkpoint() is compiled only with DEBUG; without
\* it the copy loop reads through the null checkpoint_ pointer, which is
\* undefined: the read faults, or yields arbitrary contents.
Revert(keep) ==
  /\ Alive
  /\ op' = "revert"
  /\ args' = [keep |-> keep]
  /\ ret' = NoArgs
  /\ UNCHANGED <<num_qubits, data_size, cnt>>
  /\ Idle
  /\ IF checkpoint = nullptr
     THEN /\ UNCHANGED checkpoint
          /\ snap' = nullptr
          /\ IF DEBUG
             THEN status' = "missing_checkpoint" /\ data' = data
             ELSE \/ status' = "crashed" /\ data' = data
                  \/ status' = "ok" /\ data' \in Uninit(data_size)
     ELSE /\ data' = copy_loop(data, checkpoint, data_size)
          /\ checkpoint' = IF keep THEN checkpoint ELSE nullptr
          /\ snap' = snap
          /\ status' = "ok"

\* inner_product().  As in revert, the missing-checkpoint check is DEBUG only.
InnerProduct ==
  /\ Alive
  /\ op' = "inner_product"
  /\ args' = NoArgs
  /\ snap' = SnapKept
  /\ cnt' = Touched(data)
  /\ UNCHANGED <<num_qubits, data_size, data, checkpoint>>
  /\ Idle
  /\ IF checkpoint = nullptr
     THEN IF DEBUG
          THEN status' = "missing_checkpoint" /\ ret' = NoArgs
          ELSE \/ status' = "crashed" /\ ret' = NoArgs
               \/ status' = "ok" /\ ret' \in {CZero, CI}
     ELSE /\ status' = "ok"
          /\ ret' = inner_product(data, checkpoint, data_size)

\* zero() leaving the last element as it was
zero_skip_last(d, dsize) == [k \in DOMAIN d |-> IF k < dsize - 1 THEN CZero ELSE d[k]]

\* zero(): data_[k] = 0.0 for every k
zero(d, dsize) == [k \in DOMAIN d |-> IF k < dsize THEN CZero ELSE d[k]]

\* initialize(): zero(); data_[0] = 1.
initialize(d, dsize) == [zero(d, dsize) EXCEPT ![0] = COne]

\* a public call that succeeds and leaves the buffer as newdata
Update(name, newdata) ==
  /\ Alive
  /\ data' = newdata
  /\ status' = "ok"
  /\ op' = name
  /\ args' = NoArgs
  /\ ret' = NoArgs
  /\ snap' = SnapKept
  /\ cnt' = Touched(newdata)
  /\ UNCHANGED <<num_qubits, data_size, checkpoint>>
  /\ Idle

Zero ==
  /\ Alive
  /\ Update("zero", zero(data, data_size))

Initialize ==
  /\ Alive
  /\ Update("initialize", initialize(data, data_size))

\* the outcome of initialize_from_vector and initialize_from_data: the
\* length check, then data_[k] = statevec[k] for k < data_size_
InitializeFrom(name, statevec, num_states) ==
  /\ Alive
  /\ op' = name
  /\ args' = [statevec |-> statevec, num_states |-> num_states]
  /\ ret' = NoArgs
  /\ snap' = SnapKept
  /\ UNCHANGED <<num_qubits, data_size, checkpoint>>
  /\ Idle
  /\ IF data_size # num_states
     THEN /\ status' = "dimension_mismatch"
          /\ cnt' = Touched(data)
          /\ UNCHANGED data
     ELSE /\ status' = "ok"
          /\ data' = copy_loop(data, statevec, data_size)
          /\ cnt' = Touched(data')

\* initialize_from_vector copying without the length check
InitializeFromVector_Unchecked(statevec) ==
  /\ Alive
  /\ op' = "initialize_from_vector"
  /\ args' = [statevec |-> statevec, num_states |-> size(statevec)]
  /\ ret' = NoArgs
  /\ snap' = SnapKept
  /\ status' = "ok"
  /\ data' = copy_loop(data, statevec, Min({data_size, size(statevec)}))
  /\ cnt' = Touched(data')
  /\ UNCHANGED <<num_qubits, data_size, checkpoint>>
  /\ Idle

\* initialize_from_vector(const cvector_t &statevec)
InitializeFromVector(statevec) ==
  /\ Alive
  /\ InitializeFrom("initialize_from_vector", statevec, size(statevec))

\* initialize_from_data(const data_t &statevec, const size_t num_states), the
\* caller's buffer holding at least num_states amplitudes
InitializeFromData(statevec, num_states) ==
  /\ Alive
  /\ num_states <= size(statevec)
  /\ InitializeFrom("initialize_from_data", statevec, num_states)

InitializeComponent(qubits, state) ==
  /\ Alive
  /\ Update("initialize_component", initialize_component(data, data_size, qubits, state))

ApplyMatrix(qubits, mat) ==
  /\ Alive
  /\ Update("apply_matrix", apply_matrix(data, data_size, qubits, mat))

ApplyDiagonalMatrix(qubits, diag) ==
  /\ Alive
  /\ Update("apply_diagonal_matrix", apply_diagonal_matrix(data, data_size, qubits, diag))

ApplyPermutationMatrix(qubits, pairs) ==
  /\ Alive
  /\ Update("apply_permutation_matrix",
            apply_permutation_matrix(data, data_size, qubits, pairs))

ApplyMcx(qubits) ==
  /\ Alive
  /\ Update("apply_mcx", apply_mcx(data, data_size, qubits))

ApplyMcy(qubits) ==
  /\ Alive
  /\ Update("apply_mcy", apply_mcy(data, data_size, qubits))

ApplyMcz(qubits) ==
  /\ Alive
  /\ Update("apply_mcz", apply_mcz(data, data_size, qubits))

ApplyMcswap(qubits) ==
  /\ Alive
  /\ size(qubits) >= 2
  /\ Update("apply_mcswap", apply_mcswap(data, data_size, qubits))

ApplyMcu(qubits, mat) ==
  /\ Alive
  /\ Update("apply_mcu", apply_mcu(data, data_size, qubits, mat))

GateOps == {"initialize_component", "apply_matrix", "apply_diagonal_matrix",
            "apply_permutation_matrix", "apply_mcx", "apply_mcy", "apply_mcz",
            "apply_mcswap", "apply_mcu"}

Next ==
  \/ \E n \in 0 .. MaxQubits : SetNumQubits(n)
  \/ Checkpoint
  \/ \E keep \in BOOLEAN : Revert(keep)
  \/ InnerProduct
  \/ Zero
  \/ Initialize
  \/ \E v \in InputVectors : InitializeFromVector(v)
  \/ \E v \in InputVectors : \E n \in {size(v), size(v) \div 2} : InitializeFromData(v, n)
  \/ \E q \in Regs(num_qubits, 1) : \E m \in UnitMatrices(size(q)) : ApplyMatrix(q, m)
  \/ \E q \in Regs(num_qubits, 1) : \E m \in UnitDiagonals(size(q)) : ApplyDiagonalMatrix(q, m)
  \/ \E q \in Regs(num_qubits, 1) : \E p \in PairLists(size(q)) : ApplyPermutationMatrix(q, p)
  \/ \E q \in Regs(num_qubits, 1) : \E j \in {0, BITS(size(q)) - 1} :
       InitializeComponent(q, Basis(BITS(size(q)), j, CI))
  \/ \E q \in Regs(num_qubits, 1) : ApplyMcx(q)
  \/ \E q \in Regs(num_qubits, 1) : ApplyMcy(q)
  \/ \E q \in Regs(num_qubits, 1) : ApplyMcz(q)
  \/ \E q \in Regs(num_qubits, 2) : ApplyMcswap(q)
  \/ \E q \in Regs(num_qubits, 1) : \E m \in UnitMatrices(1) : ApplyMcu(q, m)

Spec == Init /\ [][Next]_vars

-----------------------------------------------------------------------------
(* Properties of the life cycle, checked under Spec *)

\* C1: in every state size() = 2^num_qubits() and the buffer has that many
\* amplitudes; no call other than set_num_qubits changes num_qubits or size.
C1_SizeIsTwoToNumQubits ==
  /\ [](data_size = 2 ^ num_qubits /\ size(data) = data_size)
  /\ [][op' # "set_num_qubits" => UNCHANGED <<num_qubits, data_size>>]_vars

\* set_num_qubits ran with the qubit count of a buffer that calls had written
C1_Witness ==
  /\ op = "set_num_qubits"
  /\ num_qubits = 2
  /\ data_size = 4
  /\ data \notin Uninit(4)

\* C2: while a checkpoint exists it holds the amplitudes of the moment
\* checkpoint() ran, whatever was applied since, and after revert(false) every
\* amplitude equals its value at that moment.
C2_RevertRestoresCheckpoint ==
  /\ checkpoint # nullptr => checkpoint = snap
  /\ (op = "revert" /\ snap # nullptr /\ ~args.keep) => data = snap

\* revert(false) ran after calls had changed the buffer since checkpoint()
C2_Witness ==
  /\ op = "revert"
  /\ status = "ok"
  /\ snap # nullptr
  /\ ~args.keep
  /\ cnt = 1
  /\ data = snap

\* C3: revert or inner_product called without a checkpoint reports the
\* missing-checkpoint error and leaves the buffer untouched.
C3_MissingCheckpointIsReported ==
  [][(checkpoint = nullptr /\ op' \in {"revert", "inner_product"})
       => (status' = "missing_checkpoint" /\ data' = data)]_vars

\* C4: revert(true) restores the snapshot and keeps the checkpoint, so that
\* inner_product() right after it succeeds and equals norm(); every later
\* revert restores the same snapshot; revert(false) releases the checkpoint.
C4_RevertKeepsOrReleases ==
  /\ []((op = "revert" /\ snap # nullptr) =>
          /\ data = snap
          /\ IF args.keep
             THEN /\ checkpoint # nullptr
                  /\ inner_product(data, checkpoint, data_size)
                       = <<norm(data, data_size), 0>>
             ELSE checkpoint = nullptr)
  /\ [][(op = "revert" /\ snap # nullptr /\ args.keep /\ op' = "inner_product")
          => (status' = "ok" /\ ret' = <<norm(data, data_size), 0>>)]_vars

\* revert(true) ran after calls had changed the buffer since checkpoint()
C4_Witness ==
  /\ op = "revert"
  /\ status = "ok"
  /\ snap # nullptr
  /\ args.keep
  /\ cnt = 1
  /\ checkpoint = data
  /\ norm(data, data_size) = 1

\* C5: a checkpoint buffer, when present, has the length of the state buffer.
C5_CheckpointHasBufferSize ==
  checkpoint # nullptr => (size(checkpoint) = data_size /\ size(checkpoint) = size(data))

\* a checkpoint of a two-qubit instance, with the buffer changed since
C5_Witness ==
  /\ checkpoint # nullptr
  /\ size(checkpoint) = 4
  /\ op \in GateOps
  /\ data # checkpoint

\* C6: after initialize() amplitude 0 is 1 and every other amplitude is 0, so
\* norm() = 1 and probability(0) = 1; initialize() changes neither the qubit
\* count, the size nor the checkpoint.
C6_InitializeGivesZeroState ==
  /\ [](op = "initialize" =>
          /\ data = [k \in 0 .. data_size - 1 |-> IF k = 0 THEN COne ELSE CZero]
          /\ norm(data, data_size) = 1
          /\ probability(data, 0) = 1)
  /\ [][op' = "initialize" => UNCHANGED <<num_qubits, data_size, checkpoint>>]_vars

\* initialize() ran on a two-qubit instance holding a different checkpoint
C6_Witness ==
  /\ op = "initialize"
  /\ num_qubits = 2
  /\ checkpoint # nullptr
  /\ checkpoint # data

-----------------------------------------------------------------------------
(* Gate fusion against gate-by-gate application.  Each call starts from    *)
(* the buffer data; ref is the buffer of a second instance holding the     *)
(* same amplitudes, on which the gates are applied one by one.             *)

MaxFusionQubits == 3
MaxGates == 2
MaxCalls == 1

\* buffers with pairwise distinct amplitudes
DistinctStates(n) == {[k \in 0 .. n - 1 |-> <<k + 1, 0>>], [k \in 0 .. n - 1 |-> <<k % 2, k + 1>>]}

\* controlled-X with the control on index bit 0 and the target on index bit 1
CXMatrix ==
  [x \in 0 .. 15 |->
     IF <<x % 4, x \div 4>> \in {<<0, 0>>, <<2, 2>>, <<1, 3>>, <<3, 1>>} THEN COne ELSE CZero]

\* X, diag(1, i), diag(i, 1) and the unnormalised Hadamard matrix
Matrices1 ==
  {ShiftMatrix(1), PhaseMatrix(1, CI), Vec(<<CI, CZero, CZero, COne>>),
   Vec(<<COne, COne, COne, CMinusOne>>)}

Matrices2 == {CXMatrix, ShiftMatrix(2), PhaseMatrix(2, CI)}

FusionGates(n) ==
  {[reg |-> q, mat |-> m] : q \in RegsOfLen(n, 1), m \in Matrices1}
  \cup {[reg |-> q, mat |-> m] : q \in RegsOfLen(n, 2), m \in Matrices2}
  \cup {[reg |-> q, mat |-> ShiftMatrix(3)] : q \in RegsOfLen(n, 3)}

GateLists(n) == UNION {[0 .. L - 1 -> FusionGates(n)] : L \in 1 .. MaxGates}

IsSorted(q) == \A a, b \in DOMAIN q : a < b => q[a] < q[b]

Contains(S, Q) == \A a \in DOMAIN Q : \E b \in DOMAIN S : S[b] = Q[a]

InitFusion ==
  /\ num_qubits \in 1 .. MaxFusionQubits
  /\ data_size = BITS(num_qubits)
  /\ data \in DistinctStates(data_size)
  /\ checkpoint = nullptr
  /\ sample_measure_index_size = 10
  /\ json_chop_threshold = 0
  /\ status = "ok"
  /\ op = "initialize_from_vector"
  /\ args = NoArgs
  /\ ret = NoArgs
  /\ snap = nullptr
  /\ ref = data
  /\ cnt = 0

\* apply_matrix_sequence(regs, mats) on this instance, apply_matrix(regs[m],
\* mats[m]) for m = 0..L-1 on the second one
ApplyMatrixSequence(regs, mats) ==
  LET r == apply_matrix_sequence(data, data_size, regs, mats)
  IN /\ Alive
     /\ cnt < MaxCalls
     /\ data' = r.data
     /\ status' = IF r.threw THEN "runtime_error" ELSE "ok"
     /\ ref' = apply_each_loop(data, data_size, regs, mats, 0)
     /\ op' = "apply_matrix_sequence"
     /\ args' = [regs |-> regs, mats |-> mats]
     /\ ret' = NoArgs
     /\ cnt' = cnt + 1
     /\ UNCHANGED <<num_qubits, data_size, checkpoint, sample_measure_index_size,
                    json_chop_threshold, snap>>

\* apply_matrix(S, expand_matrix(Q, S, M)) on this instance, apply_matrix(Q, M)
\* on the second one
ApplyExpandedMatrix(Q, S, M) ==
  LET e == expand_matrix(Q, S, M)
  IN /\ Alive
     /\ cnt < MaxCalls
     /\ data' = IF e.threw THEN data ELSE apply_matrix(data, data_size, S, e.u)
     /\ status' = IF e.threw THEN "runtime_error" ELSE "ok"
     /\ ref' = apply_matrix(data, data_size, Q, M)
     /\ op' = "expand_matrix"
     /\ args' = [src_qubits |-> Q, dst_sorted_qubits |-> S, vmat |-> M]
     /\ ret' = NoArgs
     /\ cnt' = cnt + 1
     /\ UNCHANGED <<num_qubits, data_size, checkpoint, sample_measure_index_size,
                    json_chop_threshold, snap>>

NextFusion ==
  \/ \E g \in GateLists(num_qubits) :
       ApplyMatrixSequence([i \in DOMAIN g |-> g[i].reg], [i \in DOMAIN g |-> g[i].mat])
  \/ \E g \in FusionGates(num_qubits) :
       \E S \in {q \in Regs(num_qubits, 1) : IsSorted(q) /\ Contains(q, g.reg)} :
         /\ size(g.reg) <= 2
         /\ ApplyExpandedMatrix(g.reg, S, g.mat)

SpecFusion == InitFusion /\ [][NextFusion]_vars

\* C7: for gates on 1 or 2 distinct qubits each, the qubit lists in any
\* order, apply_matrix_sequence(regs, mats) leaves the same amplitudes as
\* apply_matrix(regs[m], mats[m]) for m = 0..L-1 in order.
C7_SequenceEqualsGateByGate ==
  (/\ op = "apply_matrix_sequence"
   /\ \A i \in DOMAIN args.regs : size(args.regs[i]) \in {1, 2})
    => data = ref

\* C8: for a sorted qubit set S and a list Q of 1 or 2 distinct qubits of S,
\* in either order, applying expand_matrix(Q, S, M) to S leaves the same
\* amplitudes as applying M to Q.
C8_ExpandCommutesWithApply ==
  op = "expand_matrix" => data = ref

-----------------------------------------------------------------------------
(* apply_mcx applied repeatedly with one qubit list; ref keeps the buffer  *)
(* the calls started from.                                                 *)

MaxMcxQubits == 4
MaxMcxCalls == 2

InitMcx ==
  /\ num_qubits \in 1 .. MaxMcxQubits
  /\ data_size = BITS(num_qubits)
  /\ data \in DistinctStates(data_size)
  /\ checkpoint = nullptr
  /\ sample_measure_index_size = 10
  /\ json_chop_threshold = 0
  /\ status = "ok"
  /\ op = "initialize_from_vector"
  /\ args = NoArgs
  /\ ret = NoArgs
  /\ snap = nullptr
  /\ ref = data
  /\ cnt = 0

\* apply_mcx(qubits), with the qubit list of the call before
McxCall(qubits) ==
  /\ Alive
  /\ cnt < MaxMcxCalls
  /\ cnt > 0 => (op = "apply_mcx" /\ args.qubits = qubits)
  /\ data' = apply_mcx(data, data_size, qubits)
  /\ status' = "ok"
  /\ op' = "apply_mcx"
  /\ args' = [qubits |-> qubits]
  /\ ret' = NoArgs
  /\ cnt' = cnt + 1
  /\ UNCHANGED <<num_qubits, data_size, checkpoint, sample_measure_index_size,
                 json_chop_threshold, snap, ref>>

\* apply_mcswap(qubits)
McswapCall(qubits) ==
  /\ Alive
  /\ cnt < MaxMcxCalls
  /\ data' = apply_mcswap(data, data_size, qubits)
  /\ status' = "ok"
  /\ op' = "apply_mcswap"
  /\ args' = [qubits |-> qubits]
  /\ ret' = NoArgs
  /\ cnt' = cnt + 1
  /\ UNCHANGED <<num_qubits, data_size, checkpoint, sample_measure_index_size,
                 json_chop_threshold, snap, ref>>

NextMcx ==
  \/ \E q \in Regs(num_qubits, 1) : McxCall(q)
  \/ \E q \in Regs(num_qubits, 2) : McswapCall(q)

SpecMcx == InitMcx /\ [][NextMcx]_vars

\* C9: apply_mcx(Q) applied twice, for a list Q of 1, 2, 3 or more distinct
\* qubits, returns every amplitude to its original value.
C9_McxIsInvolution ==
  (op = "apply_mcx" /\ cnt % 2 = 0) => data = ref

\* the second of two calls on four qubits (the kernel with the index table
\* computed at run time) has returned
C9_Witness ==
  /\ op = "apply_mcx"
  /\ cnt = 2
  /\ num_qubits = 4
  /\ size(args.qubits) = 4
  /\ data = ref
  /\ apply_mcx(data, data_size, args.qubits) # data

-----------------------------------------------------------------------------
(* Sampling with a configured index size *)

MaxSampleQubits == 2
MaxIndexSize == 2
MaxShots == 2
MaxRnd == 4

\* the zero buffer, basis states, the all-ones buffer
SampleStates(n) ==
  {[k \in 0 .. n - 1 |-> CZero], Basis(n, 0, COne), Basis(n, n - 1, CI),
   [k \in 0 .. n - 1 |-> COne]}

RndLists == UNION {[0 .. L - 1 -> 0 .. MaxRnd] : L \in 0 .. MaxShots}

InitSample ==
  /\ num_qubits \in 0 .. MaxSampleQubits
  /\ data_size = BITS(num_qubits)
  /\ data \in SampleStates(data_size)
  /\ checkpoint = nullptr
  /\ sample_measure_index_size = 10
  /\ json_chop_threshold = 0
  /\ status = "ok"
  /\ op = "initialize_from_vector"
  /\ args = NoArgs
  /\ ret = NoArgs
  /\ snap = nullptr
  /\ ref = nullptr
  /\ cnt = 0

\* set_sample_measure_index_size(int n)
SetSampleMeasureIndexSize(n) ==
  /\ Alive
  /\ sample_measure_index_size' = n
  /\ op' = "set_sample_measure_index_size"
  /\ args' = NoArgs
  /\ ret' = NoArgs
  /\ status' = "ok"
  /\ UNCHANGED <<num_qubits, data_size, data, checkpoint, json_chop_threshold, snap, ref, cnt>>

\* sample_measure(rnds)
SampleMeasure(rnds) ==
  /\ Alive
  /\ ret' = sample_measure(data, data_size, sample_measure_index_size, rnds)
  /\ op' = "sample_measure"
  /\ args' = [rnds |-> rnds]
  /\ status' = "ok"
  /\ UNCHANGED <<num_qubits, data_size, data, checkpoint, sample_measure_index_size,
                 json_chop_threshold,
                 snap, ref, cnt>>

NextSample ==
  \/ \E n \in 0 .. MaxIndexSize : SetSampleMeasureIndexSize(n)
  \/ \E rnds \in RndLists : SampleMeasure(rnds)
  \/ Zero
  \/ Initialize

SpecSample == InitSample /\ [][NextSample]_vars

\* C10: sample_measure returns one outcome per input random value, each
\* outcome in [0, 2^N), for every state and every configured index size.
C10_SampleOutcomesInRange ==
  op = "sample_measure" =>
    /\ size(ret) = size(args.rnds)
    /\ \A i \in DOMAIN ret : ret[i] \in 0 .. data_size - 1

\* C11: in the small-state regime (2^N < 2^index_size) the outcome of shot s
\* is the least j in [0, 2^N - 2] with rnds[s] < |a[0]|^2 + ... + |a[j]|^2,
\* and 2^N - 1 when there is none; equal random values give equal outcomes,
\* and sample_measure leaves the state unchanged.
C11_SmallRegimeOutcome ==
  /\ []((op = "sample_measure" /\ data_size < BITS(sample_measure_index_size)) =>
          /\ \A s \in DOMAIN ret :
               LET below == {j \in 0 .. data_size - 2 :
                               args.rnds[s] < norm(data, j + 1) * RndDen}
               IN ret[s] = IF below = {} THEN data_size - 1
                           ELSE CHOOSE j \in below : \A i \in below : j <= i
          /\ \A s, t \in DOMAIN ret : args.rnds[s] = args.rnds[t] => ret[s] = ret[t])
  /\ [][op' = "sample_measure" => data' = data]_vars

\* two shots with the same random value 1.5 on the two-qubit all-ones buffer,
\* both giving outcome 1, next to which a value beyond the norm gives 2^N - 1
C11_Witness ==
  /\ op = "sample_measure"
  /\ data_size < BITS(sample_measure_index_size)
  /\ data = [k \in 0 .. 3 |-> COne]
  /\ size(ret) = 2
  /\ args.rnds[0] = 3
  /\ args.rnds[1] = 3
  /\ ret[0] = 1
  /\ ret[1] = 1

\* C27: for every state and every random value below norm(), the large-state
\* regime of sample_measure (2^N >= 2^index_size) returns the outcome of the
\* small-state linear walk, the least j with rnd < |a[0]|^2 + ... + |a[j]|^2,
\* for every configured index size.
C27_LargeRegimeEqualsLinearWalk ==
  (op = "sample_measure" /\ data_size >= BITS(sample_measure_index_size)) =>
    \A s \in DOMAIN ret :
      rnd_less(args.rnds[s], norm(data, data_size)) =>
        /\ ret[s] = sample_walk(data, args.rnds[s], 0, 0, data_size)
        /\ rnd_less(args.rnds[s], norm(data, ret[s] + 1))
        /\ \A j \in 0 .. ret[s] - 1 : ~rnd_less(args.rnds[s], norm(data, j + 1))

\* the two-qubit all-ones buffer with index size 1 (two blocks of two
\* amplitudes): rnd = 1.5 falls in the first block and gives 1, rnd = 2 falls
\* in the second block and gives 2
C27_Witness ==
  /\ op = "sample_measure"
  /\ sample_measure_index_size = 1
  /\ data = [k \in 0 .. 3 |-> COne]
  /\ size(ret) = 2
  /\ args.rnds[0] = 3
  /\ args.rnds[1] = 4
  /\ ret[0] = 1
  /\ ret[1] = 2

-----------------------------------------------------------------------------
(* Probability queries *)

MaxProbQubits == 3

InitProb ==
  /\ num_qubits \in 0 .. MaxProbQubits
  /\ data_size = BITS(num_qubits)
  /\ data \in DistinctStates(data_size) \cup SampleStates(data_size)
  /\ checkpoint = nullptr
  /\ sample_measure_index_size = 10
  /\ json_chop_threshold = 0
  /\ status = "ok"
  /\ op = "initialize_from_vector"
  /\ args = NoArgs
  /\ ret = NoArgs
  /\ snap = nullptr
  /\ ref = nullptr
  /\ cnt = 0

\* a const query returning value
Query(name, arguments, value) ==
  /\ Alive
  /\ ret' = value
  /\ op' = name
  /\ args' = arguments
  /\ status' = "ok"
  /\ UNCHANGED <<num_qubits, data_size, data, checkpoint, sample_measure_index_size,
                 json_chop_threshold,
                 snap, ref, cnt>>

\* probabilities()
Probabilities ==
  /\ Alive
  /\ Query("probabilities", [overload |-> "none"], probabilities_all(data, data_size))

\* probabilities(qubit)
ProbabilitiesQubit(qubit) ==
  /\ Alive
  /\ Query("probabilities", [overload |-> "qubit", qubits |-> Vec(<<qubit>>)],
           probabilities1(data, data_size, qubit))

\* probabilities(qubits)
ProbabilitiesReg(qubits) ==
  /\ Alive
  /\ Query("probabilities", [overload |-> "reg", qubits |-> qubits],
           probabilities(data, data_size, num_qubits, qubits))

NextProb ==
  \/ Probabilities
  \/ \E q \in 0 .. num_qubits - 1 : ProbabilitiesQubit(q)
  \/ \E Q \in Regs(num_qubits, 0) : ProbabilitiesReg(Q)

SpecProb == InitProb /\ [][NextProb]_vars

\* the sum of probability(j) over the basis indices j <= top whose bit Q[m]
\* equals bit m of i for every m
RECURSIVE MarginalSum(_, _, _, _)
MarginalSum(d, Q, i, top) ==
  IF top < 0 THEN 0
  ELSE (IF \A m \in DOMAIN Q : BitSet(top, BITS(Q[m])) = BitSet(i, BITS(m))
        THEN probability(d, top) ELSE 0)
       + MarginalSum(d, Q, i, top - 1)

RECURSIVE SumTo(_, _)
SumTo(v, top) == IF top < 0 THEN 0 ELSE v[top] + SumTo(v, top - 1)

\* C12: for every list Q of k distinct qubits, in any order, entry i of
\* probabilities(Q) is the sum of probability(j) over the basis indices j
\* whose bit Q[m] equals bit m of i for every m.
C12_ProbabilitiesAreMarginals ==
  (op = "probabilities" /\ args.overload \in {"qubit", "reg"}) =>
    /\ size(ret) = BITS(size(args.qubits))
    /\ \A i \in DOMAIN ret : ret[i] = MarginalSum(data, args.qubits, i, data_size - 1)

\* probabilities({2, 0}) on three qubits, with entries 1 and 2 different
C12_Witness ==
  /\ op = "probabilities"
  /\ args.overload = "reg"
  /\ num_qubits = 3
  /\ args.qubits = Vec(<<2, 0>>)
  /\ ret[1] # ret[2]

\* C13: the entries of probabilities(), of probabilities(q) and of
\* probabilities(Q), for every list Q of distinct qubits including the empty
\* list (one entry) and the full set, sum to norm().
C13_ProbabilitiesSumToNorm ==
  op = "probabilities" =>
    /\ SumTo(ret, size(ret) - 1) = norm(data, data_size)
    /\ (args.overload = "reg" /\ size(args.qubits) = 0) => size(ret) = 1

\* probabilities({}) on three qubits with a buffer of norm above 1
C13_Witness ==
  /\ op = "probabilities"
  /\ args.overload = "reg"
  /\ size(args.qubits) = 0
  /\ num_qubits = 3
  /\ ret[0] > 1

-----------------------------------------------------------------------------
(* Sequences of unitary gates *)

MaxUnitaryQubits == 2
MaxUnitaryCalls == 2

\* unitary 2x2 matrices with entries in {0, 1, -1, i, -i}, column-major: the
\* shift and phase matrices, Pauli Y and diag(i, 1)
Unitaries1 ==
  UnitMatrices(1) \cup {Vec(<<CZero, CI, CMinusI, CZero>>), Vec(<<CI, CZero, CZero, COne>>)}

\* unitary k-qubit matrices with entries in {0, 1, -1, i, -i}
Unitaries(k) == IF k = 1 THEN Unitaries1 ELSE UnitMatrices(k)

\* diagonals with entries of unit modulus
PhaseDiagonals(k) ==
  {[i \in 0 .. BITS(k) - 1 |-> IF i = BITS(k) - 1 THEN p ELSE COne] : p \in {CI, CMinusOne}}
  \cup {[i \in 0 .. BITS(k) - 1 |-> IF i = 0 THEN p ELSE COne] : p \in {CI, CMinusI}}

InitUnitary ==
  /\ num_qubits \in 0 .. MaxUnitaryQubits
  /\ data_size = BITS(num_qubits)
  /\ data \in DistinctStates(data_size) \cup SampleStates(data_size)
  /\ checkpoint = nullptr
  /\ sample_measure_index_size = 10
  /\ json_chop_threshold = 0
  /\ status = "ok"
  /\ op = "initialize_from_vector"
  /\ args = NoArgs
  /\ ret = NoArgs
  /\ snap = nullptr
  /\ ref = nullptr
  /\ cnt = 0

\* one gate of a sequence of at most MaxUnitaryCalls gates
Gate(name, arguments, newdata) ==
  /\ cnt < MaxUnitaryCalls
  /\ cnt' = cnt + 1
  /\ data' = newdata
  /\ status' = "ok"
  /\ op' = name
  /\ args' = arguments
  /\ UNCHANGED <<num_qubits, data_size, checkpoint, sample_measure_index_size,
                 json_chop_threshold, ret, snap, ref>>

NextUnitary ==
  \/ \E q \in Regs(num_qubits, 1) : \E m \in Unitaries(size(q)) :
       Gate("apply_matrix", [qubits |-> q, mat |-> m], apply_matrix(data, data_size, q, m))
  \/ \E q \in Regs(num_qubits, 1) : \E m \in PhaseDiagonals(size(q)) :
       Gate("apply_diagonal_matrix", [qubits |-> q, mat |-> m],
            apply_diagonal_matrix(data, data_size, q, m))
  \/ \E q \in Regs(num_qubits, 1) :
       Gate("apply_mcx", [qubits |-> q], apply_mcx(data, data_size, q))
  \/ \E q \in Regs(num_qubits, 1) :
       Gate("apply_mcy", [qubits |-> q], apply_mcy(data, data_size, q))
  \/ \E q \in Regs(num_qubits, 1) :
       Gate("apply_mcz", [qubits |-> q], apply_mcz(data, data_size, q))
  \/ \E q \in Regs(num_qubits, 2) :
       Gate("apply_mcswap", [qubits |-> q], apply_mcswap(data, data_size, q))
  \/ \E q \in Regs(num_qubits, 1) : \E m \in Unitaries1 :
       Gate("apply_mcu", [qubits |-> q, mat |-> m], apply_mcu(data, data_size, q, m))

SpecUnitary == InitUnitary /\ [][NextUnitary]_vars

\* C14: apply_matrix with a unitary matrix, apply_diagonal_matrix with a
\* diagonal of unit-modulus entries, apply_mcx, apply_mcy, apply_mcz,
\* apply_mcswap and apply_mcu with a unitary 2x2 matrix each leave norm()
\* unchanged (exactly, the entries being in {0, 1, -1, i, -i}), so a state of
\* norm 1 has norm 1 after any sequence of them.
C14_UnitaryGatesPreserveNorm ==
  /\ [][norm(data', data_size') = norm(data, data_size)]_vars
  /\ [](norm(data, data_size) = 1 => [](norm(data, data_size) = 1))

\* a state of norm 1 after two gates that moved its amplitude
C14_Witness ==
  /\ cnt = 2
  /\ num_qubits = 2
  /\ norm(data, data_size) = 1
  /\ op = "apply_mcu"
  /\ data = Basis(4, 2, CMinusI)

-----------------------------------------------------------------------------
(* Serialization *)

MaxJsonQubits == 2
MaxThreshold == 2

\* amplitudes with parts of magnitude 0, 1 and 2
JsonStates(n) == [0 .. n - 1 -> {<<1, -2>>, <<-1, 0>>, <<2, 1>>}]

InitJson ==
  /\ num_qubits \in 0 .. MaxJsonQubits
  /\ data_size = BITS(num_qubits)
  /\ data \in JsonStates(data_size)
  /\ checkpoint = nullptr
  /\ sample_measure_index_size = 10
  /\ json_chop_threshold = 0
  /\ status = "ok"
  /\ op = "initialize_from_vector"
  /\ args = NoArgs
  /\ ret = NoArgs
  /\ snap = nullptr
  /\ ref = nullptr
  /\ cnt = 0

\* set_json_chop_threshold(double threshold)
SetJsonChopThreshold(threshold) ==
  /\ Alive
  /\ json_chop_threshold' = threshold
  /\ op' = "set_json_chop_threshold"
  /\ args' = NoArgs
  /\ ret' = NoArgs
  /\ status' = "ok"
  /\ UNCHANGED <<num_qubits, data_size, data, checkpoint, sample_measure_index_size,
                 snap, ref, cnt>>

\* json()
Json ==
  /\ Alive
  /\ Query("json", NoArgs, json(data, data_size, json_chop_threshold))

NextJson ==
  \/ \E t \in -1 .. MaxThreshold : SetJsonChopThreshold(t)
  \/ Json

SpecJson == InitJson /\ [][NextJson]_vars

\* C15: json() returns exactly 2^N entries [re, im]; with a threshold above 0
\* each real and each imaginary part of absolute value at most the threshold
\* is emitted as 0, independently of the other part, and the parts above the
\* threshold are emitted unchanged; with a threshold of 0 or less nothing is
\* chopped.
C15_JsonChopsSmallParts ==
  op = "json" =>
    /\ DOMAIN ret = 0 .. BITS(num_qubits) - 1
    /\ \A j \in DOMAIN ret :
         /\ size(ret[j]) = 2
         /\ \A part \in 1 .. 2 :
              ret[j][part] = IF json_chop_threshold > 0
                                /\ data[j][part] <= json_chop_threshold
                                /\ -data[j][part] <= json_chop_threshold
                             THEN 0 ELSE data[j][part]

\* threshold 1: of the amplitude 1 - 2i the real part is chopped, the
\* imaginary part is kept
C15_Witness ==
  /\ op = "json"
  /\ json_chop_threshold = 1
  /\ num_qubits = 2
  /\ data[3] = <<1, -2>>
  /\ ret[3] = <<0, -2>>
  /\ data[0] = <<2, 1>>
  /\ ret[0] = <<2, 0>>

-----------------------------------------------------------------------------
(* Initialization from a caller's amplitudes *)

\* C16: initialize_from_vector and initialize_from_data with a length other
\* than 2^N fail with a dimension-mismatch error and leave the amplitudes,
\* the size and the checkpoint unchanged; with the length 2^N they never fail
\* and set a[k] to the k-th supplied amplitude for every k.
C16_InitializeFromChecksLength ==
  [][op' \in {"initialize_from_vector", "initialize_from_data"} =>
       /\ num_qubits' = num_qubits
       /\ data_size' = data_size
       /\ checkpoint' = checkpoint
       /\ IF args'.num_states # BITS(num_qubits)
          THEN status' = "dimension_mismatch" /\ data' = data
          ELSE /\ status' = "ok"
               /\ DOMAIN data' = 0 .. BITS(num_qubits) - 1
               /\ \A k \in DOMAIN data' : data'[k] = args'.statevec[k]]_vars

\* a vector of 4 amplitudes refused by a one-qubit register holding a checkpoint
C16_Witness ==
  /\ op = "initialize_from_vector"
  /\ status = "dimension_mismatch"
  /\ size(args.statevec) = 4
  /\ num_qubits = 1
  /\ checkpoint # nullptr
  /\ data # checkpoint

-----------------------------------------------------------------------------
(* Single gates and queries on arbitrary qubit arguments *)

\* check_qubit(qubit) throws
check_qubit(nq, qubit) == qubit + 1 > nq

\* lists of one or two distinct qubit arguments, in the register or above it
QubitArgs == RegsOfLen(MaxUnitaryQubits + 1, 1) \cup RegsOfLen(MaxUnitaryQubits + 1, 2)

\* data_ followed by the memory behind the buffer, holding g
Beyond(d, dsize, g) ==
  [k \in 0 .. BITS(MaxUnitaryQubits + 1) - 1 |-> IF k < dsize THEN d[k] ELSE g]

\* a call of a kernel loop over qubits: the check of DEBUG builds; a loop that
\* indexes behind the buffer (undefined behaviour: a crash, or the kernel run
\* on whatever the memory holds); the kernel
Unchecked(name, qubits, inside, beyond) ==
  LET outside == \E i \in DOMAIN qubits : check_qubit(num_qubits, qubits[i])
      END == data_size \div BITS(size(qubits))
  IN /\ Alive
     /\ cnt < MaxUnitaryCalls
     /\ cnt' = cnt + 1
     /\ op' = name
     /\ args' = [qubits |-> qubits]
     /\ UNCHANGED <<num_qubits, data_size, checkpoint, sample_measure_index_size,
                    json_chop_threshold, snap, ref>>
     /\ IF DEBUG /\ outside
        THEN status' = "qubit_out_of_range" /\ UNCHANGED <<data, ret>>
        ELSE IF outside /\ END > 0
        THEN \/ status' = "crashed" /\ UNCHANGED <<data, ret>>
             \/ \E r \in beyond :
                  /\ status' = "ok"
                  /\ data' = [k \in 0 .. data_size - 1 |-> r.data[k]]
                  /\ ret' = r.ret
        ELSE status' = "ok" /\ data' = inside.data /\ ret' = inside.ret

\* apply_mcx(qubits)
ApplyMcxAnyQubit(qubits) ==
  /\ Alive
  /\ Unchecked("apply_mcx", qubits,
               [data |-> apply_mcx(data, data_size, qubits), ret |-> NoArgs],
               {[data |-> apply_mcx(Beyond(data, data_size, g), data_size, qubits),
                 ret |-> NoArgs] : g \in {CZero, CI}})

\* probabilities(qubit)
ProbabilitiesAnyQubit(qubit) ==
  /\ Alive
  /\ Unchecked("probabilities", Vec(<<qubit>>),
               [data |-> data, ret |-> probabilities1(data, data_size, qubit)],
               {[data |-> data,
                 ret |-> probabilities1(Beyond(data, data_size, g), data_size, qubit)]
                  : g \in {CZero, CI}})

\* 2x2 matrices, column-major: the unitary ones, diag(2, 3) and a dense one
\* with four different entries
GateMatrices ==
  Unitaries1 \cup {Vec(<<<<2, 0>>, CZero, CZero, <<3, 0>>>>),
                   Vec(<<<<1, 0>>, <<2, 0>>, <<3, 0>>, <<4, 0>>>>)}

\* the pairs (diag[0], diag[1]) with a path of their own in
\* apply_diagonal_matrix(qubit, diag), z = 2, and a pair without one
DiagonalPairs ==
  {Vec(<<COne, w>>) : w \in {COne, CMinusI, CI, CZero, <<2, 0>>}}
  \cup {Vec(<<z, COne>>) : z \in {CMinusI, CI, CZero, <<2, 0>>}}
  \cup {Vec(<<<<2, 0>>, <<0, 3>>>>)}

NextGate ==
  \/ \E q \in QubitArgs : ApplyMcxAnyQubit(q)
  \/ \E q \in 0 .. MaxUnitaryQubits : ProbabilitiesAnyQubit(q)
  \/ \E q \in Regs(num_qubits, 1) : \E m \in GateMatrices :
       Gate("apply_mcu", [qubits |-> q, mat |-> m], apply_mcu(data, data_size, q, m))
  \/ \E q \in 0 .. num_qubits - 1 : \E m \in DiagonalPairs :
       Gate("apply_diagonal_matrix", [qubit |-> q, diag |-> m],
            apply_diagonal_matrix1(data, data_size, q, m))
  \/ \E q \in 0 .. num_qubits - 1 : \E m \in GateMatrices :
       Gate("apply_matrix", [qubit |-> q, mat |-> m], apply_matrix1(data, data_size, q, m))

SpecGate == InitUnitary /\ [][NextGate]_vars

\* C17: a gate or block query called with a qubit index q >= N fails on entry
\* with a qubit-out-of-range error and leaves the buffer untouched; a call all
\* of whose qubits are below N never raises that error.
C17_QubitOutOfRangeIsReported ==
  [][op' \in {"apply_mcx", "probabilities"} =>
       IF \E i \in DOMAIN args'.qubits : args'.qubits[i] >= num_qubits
       THEN status' = "qubit_out_of_range" /\ data' = data
       ELSE status' # "qubit_out_of_range"]_vars

\* the buffer after the 2x2 matrix mat (column-major) acted on the pair of
\* amplitudes that differ in the bit of the last qubit of Q, for every index
\* whose bits of the other qubits of Q are all 1
McuExpected(d, Q, mat) ==
  LET t == BITS(Q[size(Q) - 1])
  IN [x \in DOMAIN d |->
        LET x0 == IF BitSet(x, t) THEN x - t ELSE x
            x1 == x0 + t
        IN IF \E m \in 0 .. size(Q) - 2 : ~BitSet(x, BITS(Q[m])) THEN d[x]
           ELSE IF x = x0 THEN CAdd(CMul(mat[0], d[x0]), CMul(mat[2], d[x1]))
           ELSE CAdd(CMul(mat[1], d[x0]), CMul(mat[3], d[x1]))]

\* C18: apply_mcu(Q, mat) with two or more qubits in Q applies the 2x2 matrix
\* to the pair (a[T_k[pos0]], a[T_k[pos1]]) of every block k, the amplitudes
\* whose control bits are all 1 and whose target bit is 0 and 1, each pair
\* once, and changes no other amplitude.
C18_McuActsOnControlledPairs ==
  [][(op' = "apply_mcu" /\ size(args'.qubits) >= 2) =>
       data' = McuExpected(data, args'.qubits, args'.mat)]_vars

\* C19: apply_diagonal_matrix(qubit, diag) multiplies every amplitude whose
\* bit of the qubit is 0 by diag[0] and every amplitude whose bit is 1 by
\* diag[1], for every pair (diag[0], diag[1]): (1, 1), (1, -i), (1, i),
\* (1, 0), (1, z), (-i, 1), (i, 1), (0, 1), (z, 1) and the general one.
C19_DiagonalScalesByBit ==
  [][op' = "apply_diagonal_matrix" =>
       \A x \in DOMAIN data :
         data'[x] = CMul(args'.diag[IF BitSet(x, BITS(args'.qubit)) THEN 1 ELSE 0], data[x])]_vars

\* the buffer after every pair (a[x0], a[x1]) of amplitudes differing in the
\* bit of the qubit became (m00 a[x0] + m01 a[x1], m10 a[x0] + m11 a[x1])
Matrix1Expected(d, qubit, m00, m01, m10, m11) ==
  LET t == BITS(qubit)
  IN [x \in DOMAIN d |->
        LET x0 == IF BitSet(x, t) THEN x - t ELSE x
            x1 == x0 + t
        IN IF x = x0 THEN CAdd(CMul(m00, d[x0]), CMul(m01, d[x1]))
           ELSE CAdd(CMul(m10, d[x0]), CMul(m11, d[x1]))]

\* C20 as stated: for a single-qubit matrix not treated as diagonal every pair
\* (T[0], T[1]) becomes a[T[0]] = m00 a[T[0]] + m10 a[T[1]] and
\* a[T[1]] = m01 (old a[T[0]]) + m11 a[T[1]], where m_rc = mat[r + 2c].
C20_Matrix1AsStated ==
  [][(op' = "apply_matrix" /\ ~(IsZero(args'.mat[1]) /\ IsZero(args'.mat[2]))) =>
       data' = Matrix1Expected(data, args'.qubit, args'.mat[0 + 2 * 0], args'.mat[1 + 2 * 0],
                               args'.mat[0 + 2 * 1], args'.mat[1 + 2 * 1])]_vars

\* C20: for a single-qubit matrix not treated as diagonal (mat[1] # 0 or
\* mat[2] # 0) apply_matrix(qubit, mat) updates every pair (T[0], T[1]) as
\* a[T[0]] = m00 a[T[0]] + m01 a[T[1]] and
\* a[T[1]] = m10 (old a[T[0]]) + m11 a[T[1]], where m_rc = mat[r + 2c].
C20_Matrix1Update ==
  [][(op' = "apply_matrix" /\ ~(IsZero(args'.mat[1]) /\ IsZero(args'.mat[2]))) =>
       data' = Matrix1Expected(data, args'.qubit, args'.mat[0 + 2 * 0], args'.mat[0 + 2 * 1],
                               args'.mat[1 + 2 * 0], args'.mat[1 + 2 * 1])]_vars

\* the matrix with mat = (1, 2, 3, 4) applied to qubit 1 of (1, 2, 3, 4)
C20_Witness ==
  /\ op = "apply_matrix"
  /\ cnt = 1
  /\ num_qubits = 2
  /\ args.qubit = 1
  /\ args.mat = Vec(<<<<1, 0>>, <<2, 0>>, <<3, 0>>, <<4, 0>>>>)
  /\ data = Vec(<<<<10, 0>>, <<14, 0>>, <<14, 0>>, <<20, 0>>>>)

-----------------------------------------------------------------------------
(* Dense matrices against the block rule *)

\* the number whose bit m, for every m, is bit Q[m] of x
Gather(x, Q) ==
  LET RECURSIVE gather(_)
      gather(m) == IF m >= size(Q) THEN 0
                   ELSE (IF BitSet(x, BITS(Q[m])) THEN BITS(m) ELSE 0) + gather(m + 1)
  IN gather(0)

\* x with bit Q[m] replaced by bit m of j, for every m
Scatter(x, Q, j) ==
  LET RECURSIVE scatter(_)
      scatter(m) == IF m >= size(Q) THEN 0
                    ELSE (IF BitSet(j, BITS(m)) THEN BITS(Q[m]) ELSE 0)
                         - (IF BitSet(x, BITS(Q[m])) THEN BITS(Q[m]) ELSE 0)
                         + scatter(m + 1)
  IN x + scatter(0)

\* the buffer with a[T[i]] = sum over j of mat[i + 2^k j] * (old a[T[j]]) in
\* every block, T being the table of the block for the qubit list Q
DenseExpected(d, Q, mat) ==
  LET DIM == BITS(size(Q))
      RECURSIVE row(_, _, _)
      row(x, i, j) == IF j >= DIM THEN CZero
                      ELSE CAdd(CMul(mat[i + DIM * j], d[Scatter(x, Q, j)]), row(x, i, j + 1))
  IN [x \in DOMAIN d |-> row(x, Gather(x, Q), 0)]

\* C21: apply_matrix(Q, mat) computes in every block
\* new a[T[i]] = sum over j of mat[i + 2^k j] * (old a[T[j]]) for all i; the
\* paths for k = 1 (the single-qubit kernel and its diagonal shortcut), 2, 3
\* and 4 give the state of this rule.
C21_DenseMatrixRule ==
  [][op' = "apply_matrix" =>
       data' = DenseExpected(data, args'.qubits, args'.mat)]_vars

-----------------------------------------------------------------------------
(* Norm queries, on a buffer that may have been checkpointed *)

MaxNormQubits == 3

\* k-qubit matrices: the unitary ones and one with entries of several moduli;
\* for one qubit the matrices of GateMatrices, which take the diagonal shortcut
\* or the dense lambda
NormMatrices(k) ==
  IF k = 1 THEN GateMatrices
  ELSE UnitMatrices(k) \cup {[x \in 0 .. BITS(2 * k) - 1 |-> <<x % 3, x % 2>>]}

NormDiagonals(k) ==
  IF k = 1 THEN DiagonalPairs
  ELSE UnitDiagonals(k) \cup {[i \in 0 .. BITS(k) - 1 |-> <<i % 3, 1>>]}

InitNorm ==
  /\ num_qubits \in 1 .. MaxNormQubits
  /\ data_size = BITS(num_qubits)
  /\ data \in DistinctStates(data_size) \cup SampleStates(data_size)
  /\ checkpoint = nullptr
  /\ sample_measure_index_size = 10
  /\ json_chop_threshold = 0
  /\ status = "ok"
  /\ op = "initialize_from_vector"
  /\ args = NoArgs
  /\ ret = NoArgs
  /\ snap = nullptr
  /\ ref = nullptr
  /\ cnt = 0

NextNorm ==
  \/ \E q \in Regs(num_qubits, 1) : \E m \in NormMatrices(size(q)) :
       Query("norm", [qubits |-> q, mat |-> m], norm_matrix(data, data_size, q, m))
  \/ \E q \in Regs(num_qubits, 1) : \E m \in NormDiagonals(size(q)) :
       Query("norm_diagonal", [qubits |-> q, mat |-> m],
             norm_diagonal(data, data_size, q, m))
  \/ Checkpoint

SpecNorm == InitNorm /\ [][NextNorm]_vars

\* C29: norm(Q, M) is the value norm() has after apply_matrix(Q, M), and
\* norm_diagonal(Q, D) the value norm() has after apply_diagonal_matrix(Q, D),
\* for every state, qubit list and matrix, the single-qubit and exact-zero
\* diagonal shortcuts included; both leave the state and the checkpoint
\* unchanged.
C29_NormOfAppliedMatrix ==
  /\ [](op = "norm" =>
          ret = norm(apply_matrix(data, data_size, args.qubits, args.mat), data_size))
  /\ [](op = "norm_diagonal" =>
          ret = norm(apply_diagonal_matrix(data, data_size, args.qubits, args.mat),
                     data_size))
  /\ [][op' \in {"norm", "norm_diagonal"} =>
          data' = data /\ checkpoint' = checkpoint]_vars

\* norm({1}, diag(2, 3)) on the checkpointed two-qubit all-ones buffer, through
\* the exact-zero shortcut: 2 * 4 + 2 * 9
C29_Witness ==
  /\ op = "norm"
  /\ num_qubits = 2
  /\ data = [k \in 0 .. 3 |-> COne]
  /\ checkpoint = data
  /\ args.qubits = Vec(<<1>>)
  /\ args.mat = Vec(<<<<2, 0>>, CZero, CZero, <<3, 0>>>>)
  /\ ret = 26

-----------------------------------------------------------------------------
(* Initializing a component: initialize_component called on the buffers of *)
(* InitUnitary and on the buffers such calls leave.                        *)

NextComponent ==
  \E q \in Regs(num_qubits, 1) : \E psi \in UnitDiagonals(size(q)) :
    Gate("initialize_component", [qubits |-> q, state |-> psi],
         initialize_component(data, data_size, q, psi))

SpecComponent == InitUnitary /\ [][NextComponent]_vars

\* C28: initialize_component(Q, psi), on a state where every amplitude with
\* some bit of Q equal to 1 is zero, sets in every block a[T[i]] = c * psi[i]
\* with c the old a[T[0]].
C28_ComponentIsScaledState ==
  [][(/\ op' = "initialize_component"
      /\ \A x \in DOMAIN data : Gather(x, args'.qubits) # 0 => data[x] = CZero)
     => \A x \in DOMAIN data :
          data'[x] = CMul(data[Scatter(x, args'.qubits, 0)],
                          args'.state[Gather(x, args'.qubits)])]_vars

\* [1, 0, 0, 0] with Q = [1] and psi = [-i, 1] has become [-i, 0, 1, 0]
C28_Witness ==
  /\ op = "initialize_component"
  /\ cnt = 1
  /\ num_qubits = 2
  /\ args.qubits = Vec(<<1>>)
  /\ args.state = Vec(<<CMinusI, COne>>)
  /\ data = Vec(<<CMinusI, CZero, COne, CZero>>)

-----------------------------------------------------------------------------
(* Multi-controlled X and SWAP *)

\* every control qubit Q[0 .. n - 1] has bit 1 in the basis index j
ControlsSet(j, Q, n) == \A m \in 0 .. n - 1 : BitSet(j, BITS(Q[m]))

\* j with the bit of qubit q flipped
Flip(j, q) == IF BitSet(j, BITS(q)) THEN j - BITS(q) ELSE j + BITS(q)

\* C22: apply_mcx(Q), with Q[0 .. n-2] the controls and Q[n-1] the target,
\* exchanges a[j] and a[j xor 2^target] for exactly the basis indices j whose
\* control bits are all 1 (every j when n = 1) and leaves every amplitude
\* whose index has some control bit 0 unchanged.
C22_McxExchangesControlledPairs ==
  [][op' = "apply_mcx" =>
       LET Q == args'.qubits
           n == size(Q)
       IN \A j \in DOMAIN data :
            data'[j] = IF ControlsSet(j, Q, n - 1) THEN data[Flip(j, Q[n - 1])]
                       ELSE data[j]]_vars

\* mcx({2, 0}) on the three-qubit state (1, .., 8): control 2, target 0
C22_Witness ==
  /\ op = "apply_mcx"
  /\ cnt = 1
  /\ num_qubits = 3
  /\ args.qubits = Vec(<<2, 0>>)
  /\ data = Vec(<<<<1, 0>>, <<2, 0>>, <<3, 0>>, <<4, 0>>, <<6, 0>>, <<5, 0>>,
                  <<8, 0>>, <<7, 0>>>>)

\* C23: apply_mcswap(Q) with two or more qubits, the last two being the
\* targets and the others the controls, exchanges the amplitudes of the two
\* basis states with all control bits 1 and target bits (1, 0) and (0, 1) in
\* every block and leaves every other amplitude unchanged; with two qubits
\* it is the plain SWAP of the two.
C23_McswapExchangesTargets ==
  [][op' = "apply_mcswap" =>
       LET Q == args'.qubits
           n == size(Q)
       IN \A j \in DOMAIN data :
            data'[j] = IF /\ ControlsSet(j, Q, n - 2)
                          /\ BitSet(j, BITS(Q[n - 2])) # BitSet(j, BITS(Q[n - 1]))
                       THEN data[Flip(Flip(j, Q[n - 2]), Q[n - 1])]
                       ELSE data[j]]_vars

\* mcswap({1, 2, 0}) on the three-qubit state (1, .., 8): control 1, targets
\* 2 and 0, so a[3] and a[6] are exchanged
C23_Witness ==
  /\ op = "apply_mcswap"
  /\ cnt = 1
  /\ num_qubits = 3
  /\ args.qubits = Vec(<<1, 2, 0>>)
  /\ data = Vec(<<<<1, 0>>, <<2, 0>>, <<3, 0>>, <<7, 0>>, <<5, 0>>, <<6, 0>>,
                  <<4, 0>>, <<8, 0>>>>)

-----------------------------------------------------------------------------
(* Index tables *)

MaxIndexQubits == 5
MaxIndexLen == 3
MaxIndexK == 8
\* the k of the example in the documentation of index0 and indexes
ExampleK == 77

InitIndex ==
  /\ num_qubits \in 0 .. MaxIndexQubits
  /\ data_size = BITS(num_qubits)
  /\ data = Basis(data_size, 0, COne)
  /\ checkpoint = nullptr
  /\ sample_measure_index_size = 10
  /\ json_chop_threshold = 0
  /\ status = "ok"
  /\ op = "initialize"
  /\ args = NoArgs
  /\ ret = NoArgs
  /\ snap = nullptr
  /\ ref = nullptr
  /\ cnt = 0

\* one call of index0 or indexes on the initialized instance
NextIndex ==
  \/ \E n \in 1 .. MaxIndexLen : \E Q \in RegsOfLen(MaxIndexQubits, n) :
     \E k \in 0 .. MaxIndexK \cup {ExampleK} :
       /\ op = "initialize"
       /\ IsSorted(Q)
       /\ Query("index0", [qubits_sorted |-> Q, k |-> k], index0(Q, k))
  \/ \E n \in 1 .. MaxIndexLen : \E Q \in RegsOfLen(MaxIndexQubits, n) :
     \E k \in 0 .. MaxIndexK \cup {ExampleK} :
       /\ op = "initialize"
       /\ Query("indexes", [qubits |-> Q, qubits_sorted |-> sort(Q), k |-> k, fixed |-> TRUE],
                indexes_static(Q, sort(Q), k))
  \/ \E n \in 1 .. MaxIndexLen : \E Q \in RegsOfLen(MaxIndexQubits, n) :
     \E k \in 0 .. MaxIndexK \cup {ExampleK} :
       /\ op = "initialize"
       /\ Query("indexes", [qubits |-> Q, qubits_sorted |-> sort(Q), k |-> k, fixed |-> FALSE],
                indexes(Q, sort(Q), k))

SpecIndex == InitIndex /\ [][NextIndex]_vars

\* the entries of the table T
Entries(T) == {T[i] : i \in DOMAIN T}

\* C24: for every sorted list Q of M distinct qubits in [0, N) the tables T(k),
\* k in [0, 2^(N-M)), are pairwise disjoint, each holds 2^M distinct indices,
\* and their union is [0, 2^N).
C24_TablesPartitionTheBuffer ==
  (/\ op = "indexes"
   /\ args.qubits = args.qubits_sorted
   /\ \A m \in DOMAIN args.qubits : args.qubits[m] < num_qubits
   /\ args.k < BITS(num_qubits - size(args.qubits))) =>
    LET Q == args.qubits
        END == BITS(num_qubits - size(Q))
        T(k) == IF k = args.k THEN ret
                ELSE IF args.fixed THEN indexes_static(Q, Q, k) ELSE indexes(Q, Q, k)
    IN /\ size(ret) = BITS(size(Q))
       /\ Cardinality(Entries(ret)) = BITS(size(Q))
       /\ \A k \in 0 .. END - 1 : k # args.k => Entries(T(k)) \cap Entries(ret) = {}
       /\ UNION {Entries(T(k)) : k \in 0 .. END - 1} = 0 .. BITS(num_qubits) - 1

\* the table of block 1 of the sorted list {1, 3} on five qubits
C24_Witness ==
  /\ op = "indexes"
  /\ num_qubits = 5
  /\ args.qubits = Vec(<<1, 3>>)
  /\ args.k = 1
  /\ ~args.fixed
  /\ ret = Vec(<<1, 3, 9, 11>>)

\* x without the bits at the positions of the ascending list Q
RECURSIVE DeleteBits(_, _, _)
DeleteBits(x, Q, m) ==
  IF m < 0 THEN x
  ELSE DeleteBits((x \div BITS(Q[m] + 1)) * BITS(Q[m]) + (x % BITS(Q[m])), Q, m - 1)

\* C25: indexes(Q_u, Q, k), Q being the ascending sort of the distinct list
\* Q_u, returns a table T of 2^M entries; T[0] = index0(Q, k) has a 0 at every
\* position of Q and gives k back when these bits are deleted; T[i] is T[0]
\* with bit Q_u[j] set for every j with bit j of i equal to 1; the fixed-size
\* and the heap variant return the same table.
C25_IndexTable ==
  /\ op = "index0" =>
       /\ \A m \in DOMAIN args.qubits_sorted : ~BitSet(ret, BITS(args.qubits_sorted[m]))
       /\ DeleteBits(ret, args.qubits_sorted, size(args.qubits_sorted) - 1) = args.k
  /\ op = "indexes" =>
       /\ DOMAIN ret = 0 .. BITS(size(args.qubits)) - 1
       /\ ret[0] = index0(args.qubits_sorted, args.k)
       /\ \A m \in DOMAIN args.qubits : ~BitSet(ret[0], BITS(args.qubits[m]))
       /\ DeleteBits(ret[0], args.qubits_sorted, size(args.qubits_sorted) - 1) = args.k
       /\ \A i \in DOMAIN ret : ret[i] = Scatter(ret[0], args.qubits, i)

\* the example of the documentation with the list reversed: k = 77 and
\* Q_u = {4, 1} give (297, 313, 299, 315)
C25_Witness ==
  /\ op = "indexes"
  /\ args.k = ExampleK
  /\ args.qubits = Vec(<<4, 1>>)
  /\ args.fixed
  /\ ret = Vec(<<297, 313, 299, 315>>)

-----------------------------------------------------------------------------
(* Block iterations of apply_lambda run by concurrent threads.  One gate   *)
(* is dispatched on the buffer; args keeps its kernel, ret the position of *)
(* every block iteration, ref the result of the sequential loop and cnt    *)
(* the number of iterations still to finish.                               *)

MaxParQubits == 3
MaxBlocks == 2

\* set_omp_threshold(1) and set_omp_threads(MaxBlocks): the parallel region
\* is entered for two qubits and more, one thread per block iteration
omp_threshold == 1
omp_threads == MaxBlocks

\* the index table of block iteration k of the kernel in flight
BlockInds(k) ==
  IF args.static THEN indexes_static(args.qubits, sort(args.qubits), k)
  ELSE indexes(args.qubits, sort(args.qubits), k)

\* apply_lambda entering "#pragma omp parallel if (...)" and "#pragma omp for"
Dispatch(name, f, qubits, static) ==
  LET END == data_size \div BITS(size(qubits))
  IN /\ Alive
     /\ op = "initialize_from_vector"
     /\ num_qubits > omp_threshold /\ omp_threads > 1
     /\ END <= MaxBlocks
     /\ op' = name
     /\ args' = [f |-> f, qubits |-> qubits, static |-> static]
     /\ ret' = [k \in 0 .. END - 1 |-> [pc |-> "todo", seen |-> nullptr]]
     /\ ref' = apply_lambda(f, data, data_size, qubits, static)
     /\ cnt' = END
     /\ UNCHANGED <<num_qubits, data_size, data, checkpoint, sample_measure_index_size,
                    json_chop_threshold, status, snap>>

\* block iteration k reads the amplitudes its kernel uses
Load(k) ==
  /\ ret[k].pc = "todo"
  /\ ret' = [ret EXCEPT ![k] = [pc |-> "loaded", seen |-> data]]
  /\ UNCHANGED <<num_qubits, data_size, data, checkpoint, sample_measure_index_size,
                 json_chop_threshold, status, op, args, snap, ref, cnt>>

\* block iteration k stores the amplitudes its kernel computed from what it
\* read; the entries it leaves as read keep what other iterations stored
Store(k) ==
  /\ ret[k].pc = "loaded"
  /\ LET computed == Call(args.f, ret[k].seen, BlockInds(k))
     IN data' = [x \in DOMAIN data |->
                   IF computed[x] # ret[k].seen[x] THEN computed[x] ELSE data[x]]
  /\ ret' = [ret EXCEPT ![k] = [pc |-> "done", seen |-> nullptr]]
  /\ cnt' = cnt - 1
  /\ UNCHANGED <<num_qubits, data_size, checkpoint, sample_measure_index_size,
                 json_chop_threshold, status, op, args, snap, ref>>

NextPar ==
  \/ \E q \in Regs(num_qubits, 2) : \E m \in UnitMatrices(size(q)) :
       Dispatch("apply_matrix", [kind |-> "matrix", mat |-> m], q, size(q) \in {2, 3, 4})
  \/ \E q \in Regs(num_qubits, 2) : \E m \in UnitDiagonals(size(q)) :
       Dispatch("apply_diagonal_matrix", [kind |-> "diagonal", mat |-> m], q,
                size(q) \in {2, 3, 4})
  \/ \E q \in Regs(num_qubits, 1) : \E p \in PairLists(size(q)) :
       Dispatch("apply_permutation_matrix", [kind |-> "permutation", pairs |-> p], q,
                size(q) \in {1, 2, 3, 4})
  \/ \E q \in Regs(num_qubits, 1) :
       Dispatch("apply_mcx",
                [kind |-> "mcx", pos0 |-> MASKS(size(q) - 1), pos1 |-> MASKS(size(q))],
                q, size(q) \in {1, 2, 3})
  \/ \E q \in Regs(num_qubits, 1) :
       Dispatch("apply_mcy",
                [kind |-> "mcy", pos0 |-> MASKS(size(q) - 1), pos1 |-> MASKS(size(q))],
                q, size(q) \in {1, 2, 3})
  \/ \E q \in Regs(num_qubits, 1) :
       Dispatch("apply_mcz", [kind |-> "mcz", pos |-> MASKS(size(q))], q,
                size(q) \in {1, 2, 3})
  \/ \E q \in Regs(num_qubits, 2) :
       Dispatch("apply_mcswap",
                [kind |-> "mcx", pos0 |-> MASKS(size(q) - 1),
                 pos1 |-> MASKS(size(q) - 1) + BITS(size(q) - 2)],
                q, size(q) \in {2, 3})
  \/ \E q \in Regs(num_qubits, 2), m \in UnitMatrices(1) :
       Dispatch("apply_mcu",
                IF IsZero(m[1]) /\ IsZero(m[2])
                THEN [kind |-> "mcu_diag", pos0 |-> MASKS(size(q) - 1),
                      pos1 |-> MASKS(size(q)), mat |-> Vec(<<m[0], m[3]>>)]
                ELSE [kind |-> "mcu", pos0 |-> MASKS(size(q) - 1),
                      pos1 |-> MASKS(size(q)), mat |-> m],
                q, size(q) \in {2, 3})
  \/ \E q \in Regs(num_qubits, 1) : \E psi \in UnitDiagonals(size(q)) :
       Dispatch("initialize_component", [kind |-> "component", mat |-> psi], q, FALSE)
  \/ \E k \in DOMAIN ret : Load(k)
  \/ \E k \in DOMAIN ret : Store(k)

InitPar == InitMcx /\ num_qubits <= MaxParQubits

SpecPar == InitPar /\ [][NextPar]_vars

\* a kernel's result on its own table does not depend on what the buffer holds
\* outside the table
ReadsOnlyTable(f, seen, inds) ==
  LET masked == [x \in DOMAIN seen |-> IF x \in Entries(inds) THEN seen[x] ELSE CZero]
  IN \A x \in Entries(inds) : Call(f, masked, inds)[x] = Call(f, seen, inds)[x]

\* C26: with the parallel region engaged, the kernel of block iteration k of
\* every gate reads and writes only indices of T(k), and once every iteration
\* has finished, in whatever order they interleaved, the buffer is the one
\* the sequential loop produces.
C26_BlocksAreIndependent ==
  /\ [](op # "initialize_from_vector" /\ cnt = 0 => data = ref)
  /\ [][\A k \in DOMAIN ret :
          (ret[k].pc = "loaded" /\ ret'[k].pc = "done") =>
            /\ \A x \in DOMAIN data : data'[x] # data[x] => x \in Entries(BlockInds(k))
            /\ ReadsOnlyTable(args.f, ret[k].seen, BlockInds(k))]_vars

-----------------------------------------------------------------------------
(* sort_matrix called on its own: a sorted list of distinct qubits and any *)
(* list of distinct qubits of the same length.  (On a list with a repeated *)
(* qubit, [1, 1] against [0, 1], the loop swaps two equal entries for ever.) *)

MaxSortQubits == 4
MaxSortLen == 3

InitSort == InitIndex /\ num_qubits = MaxSortQubits

\* the DIM x DIM matrix whose entry at position x is x
SortMatrix(n) == [x \in 0 .. BITS(2 * n) - 1 |-> <<x, 0>>]

\* sort_matrix(src, sorted, mat) entered: ret = mat, current = src
SortMatrixCall(src, sorted) ==
  /\ Alive
  /\ op = "initialize"
  /\ op' = "sort_matrix"
  /\ args' = [src |-> src, sorted |-> sorted]
  /\ ref' = src
  /\ ret' = SortMatrix(size(src))
  /\ cnt' = 0
  /\ status' = "running"
  /\ UNCHANGED <<num_qubits, data_size, data, checkpoint, sample_measure_index_size,
                 json_chop_threshold, snap>>

\* one test of the while condition and, when it holds, one pass of the body;
\* ref is current and cnt counts the swaps
SortMatrixStep ==
  /\ op = "sort_matrix"
  /\ status = "running"
  /\ LET s == sort_matrix_step(ref, args.sorted, ret, BITS(size(args.src)))
     IN IF ref = args.sorted \/ s.exit = "break"
        THEN status' = "ok" /\ UNCHANGED <<ref, ret, cnt>>
        ELSE IF s.exit = "throw"
        THEN status' = "runtime_error" /\ UNCHANGED <<ref, ret, cnt>>
        ELSE /\ ref' = s.current
             /\ ret' = s.ret
             /\ cnt' = cnt + 1
             /\ UNCHANGED status
  /\ UNCHANGED <<num_qubits, data_size, data, checkpoint, sample_measure_index_size,
                 json_chop_threshold, op, args, snap>>

NextSort ==
  \/ \E sorted \in {q \in Regs(num_qubits, 0) : IsSorted(q) /\ size(q) <= MaxSortLen} :
       \E src \in RegsOfLen(num_qubits, size(sorted)) : SortMatrixCall(src, sorted)
  \/ SortMatrixStep

SpecSort == InitSort /\ [][NextSort]_vars

\* src holds every entry of sorted (and so, sorted being distinct and of the
\* same length, is a permutation of it)
IsPermutation(src, sorted) ==
  /\ size(src) = size(sorted)
  /\ \A i \in DOMAIN sorted : \E j \in DOMAIN src : src[j] = sorted[i]

\* C30: for src a permutation of the distinct list sorted, sort_matrix leaves
\* its loop after at most |src| transposition steps with the working order
\* equal to sorted and without raising 'should not reach here'; the error is
\* raised only when src is not a permutation of sorted.
C30_SortMatrixTerminatesSorted ==
  op = "sort_matrix" =>
    /\ IsPermutation(args.src, args.sorted) =>
         /\ status # "runtime_error"
         /\ cnt <= size(args.src)
         /\ status = "ok" => ref = args.sorted
         /\ (status = "running" /\ cnt = size(args.src)) => ref = args.sorted
    /\ status = "runtime_error" => ~IsPermutation(args.src, args.sorted)

\* [2, 0, 1] brought to [0, 1, 2] in two transpositions
C30_Witness ==
  /\ op = "sort_matrix"
  /\ status = "ok"
  /\ args.src = Vec(<<2, 0, 1>>)
  /\ args.sorted = Vec(<<0, 1, 2>>)
  /\ ref = args.sorted
  /\ cnt = 2
  /\ ret # SortMatrix(3)
====
